---- MODULE Spec2Model ----
(***************************************************************************)
(* RSC-Validate-Backup.py: the Oracle validation workflow and the Hyper-V  *)
(* live mount / unmount workflow of main(), with the remote service as     *)
(* the environment.                                                        *)
(*                                                                         *)
(* Strings whose letter case matters (statuses, VM names) are sequences    *)
(* of one-character strings, so that str.upper() and the name clean-up     *)
(* are computed character by character.  Ids are plain strings; the empty  *)
(* string stands for every falsy id (None, missing key, "").               *)
(***************************************************************************)
EXTENDS Integers, Sequences, FiniteSets, TLC

\* ------------------------------------------------------------------ strings

\* Python None and a missing dict key, for string-valued fields.
None == <<"<None>">>
Absent == <<"<absent>">>

LowerCase == <<"a","b","c","d","e","f","g","h","i","j","k","l","m",
               "n","o","p","q","r","s","t","u","v","w","x","y","z">>
UpperCase == <<"A","B","C","D","E","F","G","H","I","J","K","L","M",
               "N","O","P","Q","R","S","T","U","V","W","X","Y","Z">>
Digits == {"0","1","2","3","4","5","6","7","8","9"}

\* str.upper() on one character.
UpperChar(c) ==
    IF \E k \in 1..26 : LowerCase[k] = c
    THEN UpperCase[CHOOSE k \in 1..26 : LowerCase[k] = c]
    ELSE c

\* str.upper().
Upper(s) == [k \in 1..Len(s) |-> UpperChar(s[k])]

\* str.isalnum() on one character.
IsAlnum(c) ==
    \/ \E k \in 1..26 : LowerCase[k] = c \/ UpperCase[k] = c
    \/ c \in Digits

\* Truthiness of a string-valued Python value.
Truthy(s) == s # None /\ s # Absent /\ s # <<>>

\* dict.get(key, default): the default only replaces a missing key.
Get(field, default) == IF field = Absent THEN default ELSE field

\* The status words the program compares against or produces.
SUCCEEDED == <<"S","U","C","C","E","E","D","E","D">>
SUCCESS == <<"S","U","C","C","E","S","S">>
FAILED == <<"F","A","I","L","E","D">>
FAILURE == <<"F","A","I","L","U","R","E">>
CANCELED == <<"C","A","N","C","E","L","E","D">>
CANCELLED == <<"C","A","N","C","E","L","L","E","D">>
WARNING == <<"W","A","R","N","I","N","G">>
PARTIALLY_SUCCEEDED ==
    <<"P","A","R","T","I","A","L","L","Y","_","S","U","C","C","E","E","D","E","D">>
RUNNING == <<"R","U","N","N","I","N","G">>
UNKNOWN == <<"U","N","K","N","O","W","N">>
UNKNOWN_STATUS_FIELD ==
    <<"U","N","K","N","O","W","N","_","S","T","A","T","U","S","_","F","I","E","L","D">>
TIMEOUT == <<"T","I","M","E","O","U","T">>

\* Status spellings the remote may report (mixed case included).
Succeeded_mc == <<"S","u","c","c","e","e","d","e","d">>
Success_mc == <<"S","u","c","c","e","s","s">>
Running_mc == <<"R","u","n","n","i","n","g">>
Failed_mc == <<"F","a","i","l","e","d">>
Canceled_mc == <<"C","a","n","c","e","l","e","d">>
Warning_mc == <<"W","a","r","n","i","n","g">>

\* --------------------------------------------------------------- pagination

\* One answer of the remote to a page query: the query raises ("raise"),
\* returns no data ("nodata"), returns data without the connection
\* ("nopath"), or returns a connection page ("page").
Page(kind, nodes, hasNextPage, endCursor) ==
    [kind |-> kind, nodes |-> nodes, hasNextPage |-> hasNextPage,
     endCursor |-> endCursor]

RECURSIVE PaginateFrom(_, _, _)
\* The while-loop of get_all_paginated_nodes from page k on, with all_nodes
\* = acc.  The remote holds the pages in order: the query after page k's
\* endCursor is answered by page k+1, and by an empty last page when the
\* remote holds no more.
PaginateFrom(pages, k, acc) ==
    IF k > Len(pages) THEN acc
    ELSE IF pages[k].kind # "page" THEN acc
    ELSE IF pages[k].hasNextPage /\ pages[k].endCursor # ""
         THEN PaginateFrom(pages, k + 1, acc \o pages[k].nodes)
         ELSE acc \o pages[k].nodes

get_all_paginated_nodes(pages) == PaginateFrom(pages, 1, <<>>)

\* ---------------------------------------------------------------- inventory

EligibleVm(vm) ==
    /\ vm.sla_id # "" /\ vm.connectionStatus = "CONNECTED"
    /\ vm.id # "" /\ Truthy(vm.name) /\ vm.cluster_id # ""

get_protected_connected_hyperv_vms(pages) ==
    SelectSeq(get_all_paginated_nodes(pages), EligibleVm)

EligibleDb(db) ==
    db.id # "" /\ Truthy(db.name) /\ db.sla_id # "" /\ db.cluster_id # ""

get_protected_oracle_dbs(pages) ==
    SelectSeq(get_all_paginated_nodes(pages), EligibleDb)

get_connected_hyperv_servers_for_cluster(pages, cluster_id_to_filter) ==
    LET Match(srv) == /\ srv.connectivity = "Connected"
                      /\ srv.cluster_id = cluster_id_to_filter
                      /\ srv.id # "" /\ srv.name # ""
    IN SelectSeq(get_all_paginated_nodes(pages), Match)

get_oracle_hosts_for_cluster(pages, cluster_id_to_filter) ==
    LET Match(h) == /\ h.cluster_id = cluster_id_to_filter
                    /\ h.objectType \in {"OracleHost", "OracleRac"}
                    /\ h.id # "" /\ h.name # ""
    IN SelectSeq(get_all_paginated_nodes(pages), Match)

\* ---------------------------------------------------------------- snapshots

\* A snapshot date is a timestamp > 0, 0 for a missing or empty date, and
\* -1 for a date string strptime rejects.
\* A variant that keeps the expired snapshots.
ValidSnapKeepsExpired(s) == s.id # "" /\ ~s.isQuarantined

ValidSnap(s) == s.id # "" /\ ~s.isExpired /\ ~s.isQuarantined

\* The first snapshot of the greatest date (max keeps the first maximum).
RECURSIVE MaxByDate(_)
MaxByDate(snaps) ==
    IF Len(snaps) = 1 THEN snaps[1]
    ELSE LET rest == MaxByDate(Tail(snaps))
         IN IF rest.date > snaps[1].date THEN rest ELSE snaps[1]

\* get_latest_snapshot_for_hyperv_vm: exits the process (sys.exit with a
\* message, exit status 1) or returns the snapshot fid.
get_latest_snapshot_for_hyperv_vm(pages) ==
    LET all_snapshot_nodes == get_all_paginated_nodes(pages)
        valid_snaps == SelectSeq(all_snapshot_nodes, ValidSnap)
        HasDate(s) == s.date # 0
        valid_snaps_with_dates == SelectSeq(valid_snaps, HasDate)
    IN IF all_snapshot_nodes = <<>> THEN [exit |-> TRUE, fid |-> ""]
       ELSE IF valid_snaps = <<>> THEN [exit |-> TRUE, fid |-> ""]
       ELSE IF valid_snaps_with_dates = <<>> THEN [exit |-> TRUE, fid |-> ""]
       ELSE IF \E k \in 1..Len(valid_snaps_with_dates) :
                   valid_snaps_with_dates[k].date < 0
            THEN [exit |-> TRUE, fid |-> ""]
       ELSE [exit |-> FALSE, fid |-> MaxByDate(valid_snaps_with_dates).id]

\* get_latest_oracle_snapshot on the answer of the snapshot query: raises
\* or returns the newest snapshot.  kind is "raise" (the query raised),
\* "nodb" (no oracleDatabase), "nosnap" (no newestSnapshot) or "snap".
get_latest_oracle_snapshot(resp) ==
    IF resp.kind # "snap" THEN [raise |-> TRUE, id |-> ""]
    ELSE IF resp.snap.isExpired \/ resp.snap.isQuarantined
         THEN [raise |-> TRUE, id |-> ""]
    ELSE IF resp.snap.id = "" \/ resp.snap.date = 0
         THEN [raise |-> TRUE, id |-> ""]
    ELSE [raise |-> FALSE, id |-> resp.snap.id]

\* ------------------------------------------------------------------ polling

max_checks == 72
max_oracle_checks == 120
\* The default of unmount_vm's parameter max_retries; main passes no other.
max_retries_default == 3

TARGET_MOUNT_ACTIVITY_TYPES ==
    {"Recovery", "Mount", "LiveMount", "HyperVLiveMount", "HypervMount",
     "HyperV Snapshot Mount"}

final_states == {SUCCEEDED, FAILED, CANCELED, WARNING, PARTIALLY_SUCCEEDED}

\* An edge of the activity series answer: a null node, or a node with its
\* lastActivityType and lastActivityStatus (None for a null status).
Edge(hasNode, type, st) ==
    [hasNode |-> hasNode, lastActivityType |-> type, lastActivityStatus |-> st]

RECURSIVE FirstTargetActivity(_)
\* The for-loop over the edges in check_rubrik_task_status: the status of
\* the first node whose type is a mount activity type, None when there is
\* none.
FirstTargetActivity(edges) ==
    IF edges = <<>> THEN None
    ELSE LET edge == Head(edges)
         IN IF ~edge.hasNode THEN FirstTargetActivity(Tail(edges))
            ELSE IF edge.lastActivityType \in TARGET_MOUNT_ACTIVITY_TYPES
                 THEN IF Truthy(edge.lastActivityStatus)
                      THEN LET status_upper == Upper(edge.lastActivityStatus)
                           IN IF status_upper = SUCCESS THEN SUCCEEDED
                              ELSE status_upper
                      ELSE UNKNOWN_STATUS_FIELD
                 ELSE FirstTargetActivity(Tail(edges))

\* A variant that reports a failed query as a failed mount.
check_rubrik_task_status_error_fails(resp) ==
    IF resp.raise THEN FAILED ELSE FirstTargetActivity(resp.edges)

\* check_rubrik_task_status on the answer of the activity series query:
\* None when the query raised, a status string otherwise.
check_rubrik_task_status(resp) ==
    IF resp.raise THEN None ELSE FirstTargetActivity(resp.edges)

\* A variant that breaks on every status reported.
HvIsFinalAnyStatus(cs) == Truthy(cs)

\* Whether the Hyper-V poll loop breaks on this status.
HvIsFinal(cs) == Truthy(cs) /\ cs \in final_states

\* A variant that reports a status only when it differs from the one the
\* pass before reported.
OraclePollBodyReportsChanges(resp, old_status) ==
    IF resp.raise \/ ~resp.details.present \/ resp.details.status = None
    THEN [outcome |-> "continue", status |-> UNKNOWN, classified |-> None]
    ELSE IF Upper(Get(resp.details.status, UNKNOWN)) = old_status
    THEN [outcome |-> "continue", status |-> UNKNOWN, classified |-> None]
    ELSE [outcome |-> "continue",
          status |-> Upper(Get(resp.details.status, UNKNOWN)),
          classified |-> None]

\* One pass through the body of the for-loop of wait_for_oracle_job on the
\* answer resp of the status query.  outcome is "true" / "false" (the
\* function returns that value) or "continue"; status is the local
\* variable afterwards; classified is the branch of the if-chain that was
\* entered (None when none was).
OraclePollBody(resp, old_status) ==
    IF resp.raise
    THEN [outcome |-> "continue", status |-> old_status, classified |-> None]
    ELSE IF ~resp.details.present
    THEN [outcome |-> "continue", status |-> UNKNOWN, classified |-> None]
    ELSE IF resp.details.status = None
    THEN \* None.upper() raises AttributeError, caught by the loop's except
         [outcome |-> "continue", status |-> UNKNOWN, classified |-> None]
    ELSE LET st == Upper(Get(resp.details.status, UNKNOWN))
         IN IF st = SUCCEEDED
            THEN [outcome |-> "true", status |-> st, classified |-> SUCCEEDED]
            ELSE IF st \in {FAILED, FAILURE}
            THEN \* the message is read with .get('error',{}).get('message'):
                 \* a null error raises AttributeError before the return
                 [outcome |-> IF resp.details.error = "null"
                              THEN "continue" ELSE "false",
                  status |-> st, classified |-> FAILED]
            ELSE IF st \in {CANCELLED, CANCELED}
            THEN [outcome |-> "false", status |-> st, classified |-> CANCELED]
            ELSE [outcome |-> "continue", status |-> st, classified |-> None]

\* ------------------------------------------------------------ locate, unmount

MountInfix == <<"-","m","o","u","n","t","-">>

\* The character clean-up and the cut to 20 characters of the mount name.
base_name(vm_name) ==
    LET cleaned == [k \in 1..Len(vm_name) |->
                      IF IsAlnum(vm_name[k]) \/ vm_name[k] \in {"_", "-"}
                      THEN vm_name[k] ELSE "_"]
    IN SubSeq(cleaned, 1, IF Len(cleaned) < 20 THEN Len(cleaned) ELSE 20)

MountVmName(vm_name, random_suffix) ==
    base_name(vm_name) \o MountInfix \o random_suffix

\* find_hyperv_mount_id on the pages answering the name lookup: the id of
\* the first node, "" (None) when there is no node or the node has no id.
find_hyperv_mount_id(pages) ==
    LET all_mount_nodes == get_all_paginated_nodes(pages)
    IN IF all_mount_nodes = <<>> THEN "" ELSE all_mount_nodes[1].id

\* A variant that takes a result without a task id for a failed attempt.
UnmountTryBodyNeedsTaskId(resp) ==
    IF resp.raise THEN "raise"
    ELSE IF resp.data = "null" THEN "raise"
    ELSE IF ~resp.result.present THEN "end"
    ELSE IF resp.result.error = "msg" THEN "end"
    ELSE IF resp.result.id = "" THEN "end"
    ELSE "true"

\* The try-body of one pass of unmount_vm on the answer resp of the delete
\* mutation: "true" (the body returns True), "end" (the body ends without
\* a return) or "raise" (an exception is raised in the body).  data is
\* "dict" or "null" (the answer's data field is null, and data.get raises
\* AttributeError); error is "absent", "null", "nomsg" (an error object
\* with an empty or missing message) or "msg".
UnmountTryBody(resp) ==
    IF resp.raise THEN "raise"
    ELSE IF resp.data = "null" THEN "raise"
    ELSE IF ~resp.result.present THEN "end"
    ELSE IF resp.result.error = "msg" THEN "end"
    ELSE "true"

\* A variant that takes a result for accepted only when it has a status.
UnmountAcceptedNeedsStatus(resp) ==
    UnmountTryBody(resp) = "true" /\ resp.result.status # "absent"

\* Whether one attempt of unmount_vm returns True on the answer resp.
UnmountAccepted(resp) == UnmountTryBody(resp) = "true"

\* A variant whose handler catches the exceptions of graphql_query only.
UnmountEscapesNarrowHandler(resp) ==
    ~UnmountAccepted(resp) /\ ~resp.raise /\ UnmountTryBody(resp) = "raise"

\* Whether an exception raised in the try-body leaves unmount_vm: the
\* handler is 'except Exception', which catches every one of them.
UnmountEscapes(resp) == FALSE

\* ------------------------------------------------- the remote's answers

\* The remote holds at most MaxPages pages of any connection.
MaxPages == 2

\* The page answers over the node lists Lists: a failing query, an answer
\* without data, and pages that end the listing (hasNextPage false, or
\* true with a null endCursor) or continue it.
PagesOver(Lists) ==
    {Page("raise", <<>>, FALSE, ""), Page("nodata", <<>>, FALSE, ""),
     Page("nopath", <<>>, FALSE, "")}
    \cup {Page("page", l, TRUE, c) : l \in Lists, c \in {"", "cursor"}}
    \cup {Page("page", l, FALSE, "") : l \in Lists}

\* The pages that make the loop ask for the next page.
ContinuingPages(Lists) == {Page("page", l, TRUE, "cursor") : l \in Lists}

\* The runs of answers one call of get_all_paginated_nodes can be served:
\* every answer but the last makes the loop ask for the next page.
PageSeqs(Lists) ==
    UNION {{first \o <<last>> : first \in [1..m -> ContinuingPages(Lists)],
                                 last \in PagesOver(Lists)} :
           m \in 0..(MaxPages - 1)}

NameWeb == <<"W","e","b"," ","0","1">>
NameDb == <<"d","b","_","0","2">>

VmNode(id, name, conn) ==
    [id |-> id, name |-> name, sla_id |-> "sla-1", connectionStatus |-> conn,
     cluster_id |-> "cl-1"]

VmLists ==
    {<<>>, <<VmNode("vm-1", NameWeb, "CONNECTED")>>,
     <<VmNode("vm-2", NameDb, "CONNECTED")>>,
     <<VmNode("vm-3", NameDb, "DISCONNECTED")>>,
     <<VmNode("", NameWeb, "CONNECTED")>>}

SnapNode(id, date, expired, quarantined) ==
    [id |-> id, date |-> date, isExpired |-> expired,
     isQuarantined |-> quarantined]

SnapLists ==
    {<<>>, <<SnapNode("snap-1", 1, FALSE, FALSE)>>,
     <<SnapNode("snap-2", 2, FALSE, FALSE)>>,
     <<SnapNode("snap-3", 3, TRUE, FALSE)>>,
     <<SnapNode("snap-4", 0, FALSE, FALSE)>>,
     <<SnapNode("snap-5", -1, FALSE, FALSE)>>,
     <<SnapNode("", 3, FALSE, TRUE)>>}

ServerNode(id, name, connectivity, cluster) ==
    [id |-> id, name |-> name, connectivity |-> connectivity,
     cluster_id |-> cluster]

ServerLists ==
    {<<>>, <<ServerNode("host-1", "hv-a", "Connected", "cl-1")>>,
     <<ServerNode("host-2", "", "Connected", "cl-1")>>,
     <<ServerNode("host-3", "hv-c", "Disconnected", "cl-1")>>,
     <<ServerNode("host-4", "hv-d", "Connected", "cl-2")>>}

DbNode(id, name, cluster) ==
    [id |-> id, name |-> name, sla_id |-> "sla-1", cluster_id |-> cluster]

DbLists ==
    {<<>>, <<DbNode("db-1", NameWeb, "cl-1")>>, <<DbNode("db-2", None, "cl-1")>>,
     <<DbNode("db-3", NameDb, "")>>}

OracleHostNode(id, name, type, cluster) ==
    [id |-> id, name |-> name, objectType |-> type, cluster_id |-> cluster]

OracleHostLists ==
    {<<>>, <<OracleHostNode("ohost-1", "ora-a", "OracleHost", "cl-1")>>,
     <<OracleHostNode("", "ora-b", "OracleRac", "cl-1")>>,
     <<OracleHostNode("odb-3", "ora-c", "OracleDatabase", "cl-1")>>,
     <<OracleHostNode("ohost-4", "ora-d", "OracleHost", "cl-2")>>}

OracleSnapshotAnswers ==
    {[kind |-> k, snap |-> SnapNode("", 0, FALSE, FALSE)] :
        k \in {"raise", "nodb", "nosnap"}}
    \cup {[kind |-> "snap", snap |-> SnapNode(id, d, e, q)] :
            id \in {"", "osnap-1"}, d \in {0, 5}, e \in BOOLEAN, q \in BOOLEAN}

\* The answers to a submit mutation: the request raises, the result is
\* null, or the result carries an id ("" when it has none).
SubmitAnswers(ids) ==
    {[raise |-> TRUE, present |-> FALSE, id |-> ""],
     [raise |-> FALSE, present |-> FALSE, id |-> ""]}
    \cup {[raise |-> FALSE, present |-> TRUE, id |-> id] : id \in ids \cup {""}}

Suffixes == {<<"a","1","b","2","c","3","d","4">>, <<"z","9","y","8","x","7","w","6">>}

\* What the remote may report as lastActivityStatus.
ActivityStatuses ==
    {None, Success_mc, SUCCEEDED, Running_mc, Failed_mc, Canceled_mc, Warning_mc}

ActivityEdges ==
    {Edge(FALSE, "", None)}
    \cup {Edge(TRUE, t, st) : t \in {"Mount", "Backup"}, st \in ActivityStatuses}

\* Edges the loop over the edges passes over.
SkippedEdges == {Edge(FALSE, "", None), Edge(TRUE, "Backup", Success_mc)}

ActivityAnswers ==
    {[raise |-> TRUE, edges |-> <<>>], [raise |-> FALSE, edges |-> <<>>]}
    \cup {[raise |-> FALSE, edges |-> <<e>>] : e \in ActivityEdges}
    \cup {[raise |-> FALSE, edges |-> <<e1, e2>>] :
            e1 \in SkippedEdges \cup {Edge(TRUE, "Mount", Running_mc)},
            e2 \in ActivityEdges}

\* What the remote may hold as the details of the Oracle job.
OracleStatuses ==
    {Absent, None, RUNNING, Succeeded_mc, SUCCEEDED, SUCCESS, WARNING, CANCELED,
     CANCELLED}

\* The statuses that come with an error field of any shape.
OracleFailureStatuses == {FAILED, Failed_mc, FAILURE}

OracleJob(present, st, error) ==
    [present |-> present, status |-> st, error |-> error]

NoOracleJob == OracleJob(FALSE, Absent, "absent")

OracleJobs ==
    {NoOracleJob}
    \cup {OracleJob(TRUE, st, "null") : st \in OracleStatuses}
    \cup {OracleJob(TRUE, st, e) : st \in OracleFailureStatuses,
                                   e \in {"absent", "null", "msg"}}

\* A status from which the remote job does not move on.
RemoteTerminal(job) ==
    /\ job.present
    /\ Truthy(job.status)
    /\ Upper(job.status) \in {SUCCEEDED, SUCCESS, FAILED, FAILURE, CANCELED, CANCELLED}

MountNode(id, name) == [id |-> id, name |-> name]

\* The node lists the name lookup may return for the requested name.
MountLists(name) ==
    {<<>>, <<MountNode("mnt-77", name)>>, <<MountNode("", name)>>,
     <<MountNode("mnt-78", name \o <<"-","2">>)>>,
     <<MountNode("mnt-77", name), MountNode("mnt-79", name)>>}

\* The result field of the answer to a delete mutation.
DeleteResult(present, error, id, st) ==
    [present |-> present, error |-> error, id |-> id, status |-> st]

NoDeleteResult == DeleteResult(FALSE, "absent", "", "absent")

\* An answer to a delete mutation: whether graphql_query raised, whether
\* the remote accepted the request (started the unmount), the data field
\* and the result.
DeleteAnswer(raise, accepted, data, result) ==
    [raise |-> raise, accepted |-> accepted, data |-> data, result |-> result]

\* No delete mutation sent yet.
NoDelete == DeleteAnswer(FALSE, FALSE, "none", NoDeleteResult)

\* A request that fails (transport error, time-out, HTTP error, GraphQL
\* errors) before or after the remote accepted it; an answer with null
\* data or a null result; results with an error object; results without.
DeleteAnswers ==
    {DeleteAnswer(TRUE, a, "none", NoDeleteResult) : a \in BOOLEAN}
    \cup {DeleteAnswer(FALSE, FALSE, "null", NoDeleteResult),
          DeleteAnswer(FALSE, FALSE, "dict", NoDeleteResult),
          DeleteAnswer(FALSE, FALSE, "dict", DeleteResult(TRUE, "msg", "", "absent")),
          DeleteAnswer(FALSE, FALSE, "dict",
                       DeleteResult(TRUE, "nomsg", "", "absent")),
          DeleteAnswer(FALSE, TRUE, "dict",
                       DeleteResult(TRUE, "null", "", "absent"))}
    \cup {DeleteAnswer(FALSE, TRUE, "dict", DeleteResult(TRUE, e, "task-9", st)) :
            e \in {"absent", "null"}, st \in {"absent", "QUEUED"}}

\* What the operator may type at a numbered menu of n entries: a number
\* from 0 to n + 1, or -1 for text that is no number.
MenuInputs(n) == -1..(n + 1)

\* -------------------------------------------------------------------- state

VARIABLES
    pc,                     \* position of main()
    selection,              \* "" until chosen, then "1" (Oracle) or "2" (Hyper-V)
    exit_code,              \* main's local exit_code
    exit_status,            \* the process exit status, -1 while it runs
    display,                \* the list shown by the current menu
    selected_id,            \* selected_vm_id / selected_db_id
    selected_vm_name_for_mount,
    selected_cluster_id,
    selected_host_id,
    mount_vm_name,
    taskchain_uuid,
    i,                      \* index of the next pass of the Hyper-V poll loop
    current_status,
    mount_task_final_state,
    mount_id_to_unmount,
    attempt,                \* index of the next pass of unmount_vm's loop
    unmount_initiated,      \* "none" until unmount_vm returned, then "true"/"false"
    job_id,
    check_count,            \* index of the next pass of wait_for_oracle_job's loop
    status,                 \* wait_for_oracle_job's local status
    validation_succeeded,   \* "none" until wait_for_oracle_job returned
    oracle_job,             \* the remote's details of the validation job
    submits,                \* submit mutations sent
    polls,                  \* status queries sent
    sleeps,                 \* poll interval sleeps
    grace_sleeps,           \* 10 s waits before the name lookup
    locates,                \* calls of find_hyperv_mount_id
    unmounts,               \* calls of unmount_vm
    deletes,                \* delete mutations sent
    retry_sleeps,           \* retry_delay_seconds sleeps of unmount_vm
    critical,               \* the MANUAL UNMOUNT REQUIRED line was printed
    last_poll,              \* "none", or how the latest status query ended
    query_failed,           \* some status query of the run raised
    terminal_seen,          \* the terminal classes the pollers classified
    max_retries,            \* unmount_vm's parameter max_retries
    last_submit,            \* "none", or how the submit mutation was answered
    last_delete,            \* the answer to the latest delete mutation
    remote_deletes,         \* delete requests the remote accepted
    remote_status,          \* the status spelling the remote reports
    remote_mounts,          \* the pages the remote holds for the name lookup
    remote_activity,        \* the activity series the remote holds for the VM
    config,                 \* the keys of the loaded config.json
    token,                  \* "" until get_auth_token returned
    auth_requests,          \* token exchange requests sent
    vmName,                 \* the vmName of the mount mutation sent
    mounted_vm_name_to_find, \* the name find_hyperv_mount_id was called with
    requested,              \* some GraphQL request was sent
    pager,                  \* the pagination loop that runs, "none" in main()
    remote_pages,           \* the pages the remote holds of the connection
    after,                  \* the cursor of the next request: 0 (None) or a page index
    all_nodes,              \* all_nodes of the pagination loop
    page_count,             \* page requests sent by the pagination loop
    paging,                 \* "idle", "loop", "returned" or "raised"
    snapshot_fid,           \* main()'s snapshot_fid / snapshot_id, "" until returned
    remote_newest,          \* the remote's answer to the newest snapshot query
    menu,                   \* the menu that runs alone: "none", "db", "or_host", "vm", "hv_host"
    menu_at,                \* "idle", "fetched", "select", "selected" or "left"
    inventory,              \* the full list the menu is built from (all_vms, ...)
    filter_name,            \* the filter text after strip().lower(), <<>> when none was read
    selected_obj,           \* <<>> (None) or the selected element
    prompts,                \* selection prompts answered
    last_entry,             \* the latest answer to the selection prompt
    script,                 \* the snapshot script that runs: "none", "agnostic", "vsphere"
    script_at,              \* "idle", "loop", "returned" or "raised" (an exception left main)
    vm_lists,               \* <<vSphere_vms, ahv_vms, hyperv_vms>> of the agnostic script
    vm_ids,                 \* vm_ids of the script's main()
    next_id,                \* passes of the loop over vm_ids that were begun
    requests,               \* the requests the loop sent, with their answers
    returned_true           \* the places in vm_ids where take_vm_snapshot returned True

ctl == <<pc, selection, exit_code, exit_status>>
pick == <<display, selected_id, selected_vm_name_for_mount, selected_cluster_id,
          selected_host_id>>
hv == <<mount_vm_name, taskchain_uuid, i, current_status, mount_task_final_state,
        mount_id_to_unmount, attempt, unmount_initiated>>
ora == <<job_id, check_count, status, validation_succeeded, oracle_job>>
log == <<submits, polls, sleeps, grace_sleeps, locates, unmounts, deletes,
         retry_sleeps, critical, last_poll, query_failed, terminal_seen>>
\* The state of the pagination loops run alone and of the two snapshot
\* scripts: idle while main() of the validator runs.
loop == <<pager, remote_pages, after, all_nodes, page_count, paging>>
snap == <<snapshot_fid, remote_newest>>
menus == <<menu, menu_at, inventory, filter_name, selected_obj, prompts,
          last_entry>>
scripts == <<script, script_at, vm_lists, vm_ids, next_id, requests,
            returned_true>>
other == <<loop, snap, menus, scripts>>
\* What no step of a workflow changes: what the remote holds, and the
\* session main() set up before the workflow was chosen.
fixed == <<remote_status, remote_mounts, remote_activity, config, token,
           auth_requests, other>>
env == <<max_retries, last_submit, last_delete, remote_deletes, fixed, vmName,
         mounted_vm_name_to_find>>
\* env without the variables of other.
main_env == <<max_retries, last_submit, last_delete, remote_deletes,
              remote_status, remote_mounts, remote_activity, config, token,
              auth_requests, vmName, mounted_vm_name_to_find>>
vars == <<ctl, pick, hv, ora, log, env, requested>>

\* The menu entry while nothing was typed.
NoEntry == [numeric |-> FALSE, value |-> 0]

\* The answer to the newest snapshot query while no query is modelled.
NoNewest == [kind |-> "nodb", snap |-> SnapNode("", 0, FALSE, FALSE)]

\* No pagination loop is modelled on its own.
LoopIdle ==
    /\ pager = "none"
    /\ remote_pages = <<>>
    /\ after = 0
    /\ all_nodes = <<>>
    /\ page_count = 0
    /\ paging = "idle"

\* No snapshot lookup is modelled on its own.
SnapIdle ==
    /\ snapshot_fid = ""
    /\ remote_newest = NoNewest

\* No selection menu is modelled on its own.
MenuIdle ==
    /\ menu = "none"
    /\ menu_at = "idle"
    /\ inventory = <<>>
    /\ filter_name = <<>>
    /\ selected_obj = <<>>
    /\ prompts = 0
    /\ last_entry = NoEntry

\* Neither snapshot script is running.
ScriptIdle ==
    /\ script = "none"
    /\ script_at = "idle"
    /\ vm_lists = <<>>
    /\ vm_ids = <<>>
    /\ next_id = 0
    /\ requests = <<>>
    /\ returned_true = {}

OtherIdle == LoopIdle /\ SnapIdle /\ MenuIdle /\ ScriptIdle

DefaultMountName ==
    <<"d","e","f","a","u","l","t","-","h","y","p","e","r","v","-","m","o","u","n","t">>

\* The config before load_config returned.
NoConfig == [kind |-> "none", keys |-> {}]

\* required_keys of main().
required_keys == {"RUBRIK_CLIENT_ID", "RUBRIK_CLIENT_SECRET", "RUBRIK_BASE_URL"}

\* What config.json can be: absent, not JSON, a JSON object with some of
\* the keys, or a JSON array holding some of the key names as strings.
ConfigFiles ==
    {[kind |-> k, keys |-> {}] : k \in {"missing", "invalid"}}
    \cup {[kind |-> k, keys |-> ks] :
            k \in {"dict", "list"}, ks \in SUBSET required_keys}

\* load_config: the parsed JSON, NoConfig standing for sys.exit(message)
\* when the file is missing or is not JSON.
load_config(file) ==
    IF file.kind \in {"missing", "invalid"} THEN NoConfig ELSE file

\* A variant that is content with any one of the required keys.
HasSomeRequiredKey(cfg) == cfg.keys \cap required_keys # {}

\* all(k in config for k in required_keys).
HasRequiredKeys(cfg) == required_keys \subseteq cfg.keys

\* config['RUBRIK_CLIENT_ID'] and the two other subscripts of the call of
\* get_auth_token: a TypeError on anything but a JSON object.
Subscriptable(cfg) == cfg.kind = "dict"

\* What the token endpoint does with the exchange request.
TokenAnswers == {"access_token", "no_access_token", "timeout", "http_error",
                 "network_error"}

\* get_auth_token: the access_token of the response, "" standing for
\* sys.exit(message) on every other outcome.
get_auth_token(answer) == IF answer = "access_token" THEN "tok-1" ELSE ""

Init ==
    /\ pc = "config"
    /\ selection = ""
    /\ exit_code = 1
    /\ exit_status = -1
    /\ display = <<>>
    /\ selected_id = ""
    /\ selected_vm_name_for_mount = DefaultMountName
    /\ selected_cluster_id = ""
    /\ selected_host_id = ""
    /\ mount_vm_name = None
    /\ taskchain_uuid = ""
    /\ i = 0
    /\ current_status = None
    /\ mount_task_final_state = None
    /\ mount_id_to_unmount = ""
    /\ attempt = 0
    /\ unmount_initiated = "none"
    /\ job_id = ""
    /\ check_count = 0
    /\ status = None
    /\ validation_succeeded = "none"
    /\ oracle_job = NoOracleJob
    /\ submits = 0
    /\ polls = 0
    /\ sleeps = 0
    /\ grace_sleeps = 0
    /\ locates = 0
    /\ unmounts = 0
    /\ deletes = 0
    /\ retry_sleeps = 0
    /\ critical = FALSE
    /\ last_poll = "none"
    /\ query_failed = FALSE
    /\ terminal_seen = {}
    /\ max_retries = max_retries_default
    /\ last_submit = "none"
    /\ last_delete = NoDelete
    /\ remote_deletes = 0
    /\ remote_status = None
    /\ remote_mounts = <<>>
    /\ remote_activity = <<>>
    /\ config = NoConfig
    /\ token = ""
    /\ auth_requests = 0
    /\ vmName = None
    /\ mounted_vm_name_to_find = None
    /\ requested = FALSE
    /\ OtherIdle

\* sys.exit(code) raised where no handler catches it.
Exit(code) ==
    /\ pc' = "exited"
    /\ exit_status' = code

\* ------------------------------------------------------- start of main()

\* load_config and the required-keys test: each failure is
\* sys.exit(message), exit status 1, and so is the TypeError of the
\* subscripts in the call of get_auth_token, raised before the call.
LoadConfig ==
    /\ pc = "config"
    /\ \E file \in ConfigFiles :
         LET loaded == load_config(file)
         IN IF loaded = NoConfig
            THEN Exit(1) /\ UNCHANGED config
            ELSE /\ config' = loaded
                 /\ IF HasRequiredKeys(loaded) /\ Subscriptable(loaded)
                    THEN pc' = "auth" /\ exit_status' = exit_status
                    ELSE Exit(1)
    /\ UNCHANGED <<max_retries, last_submit, last_delete, remote_deletes,
                   remote_status, remote_mounts, remote_activity, token,
                   auth_requests, other, vmName, mounted_vm_name_to_find, requested,
                   selection, exit_code, pick, hv, ora, log>>

\* get_auth_token: the token exchange request; each failure is
\* sys.exit(message), exit status 1.
Authenticate ==
    /\ pc = "auth"
    /\ auth_requests' = auth_requests + 1
    /\ \E answer \in TokenAnswers :
         /\ token' = get_auth_token(answer)
         /\ IF token' # ""
            THEN pc' = "select" /\ exit_status' = exit_status
            ELSE Exit(1)
    /\ UNCHANGED <<max_retries, last_submit, last_delete, remote_deletes,
                   remote_status, remote_mounts, remote_activity, config,
                   other, vmName, mounted_vm_name_to_find, requested,
                   selection, exit_code, pick, hv, ora, log>>

\* --workflow or the menu: any entry other than 1 or 2 repeats the prompt.
SelectWorkflow ==
    /\ pc = "select"
    /\ \E entry \in {"1", "2", "3"} :
         IF entry \in {"1", "2"}
         THEN /\ selection' = entry
              /\ pc' = IF entry = "1" THEN "or_dbs" ELSE "hv_vms"
         ELSE UNCHANGED <<selection, pc>>
    /\ exit_code' = 1
    /\ UNCHANGED requested
    /\ UNCHANGED <<env, exit_status, pick, hv, ora, log>>

\* The list a menu shows when the operator presses Enter at the filter
\* prompt: the first 15 entries of a list of more than 15.
Displayed(all) == IF Len(all) > 15 THEN SubSeq(all, 1, 15) ELSE all

\* A numbered menu over display: the chosen element, or <<>> when the
\* entry is no number of the list and the prompt repeats.
MenuChoice(entry) ==
    IF entry >= 1 /\ entry - 1 < Len(display) THEN <<display[entry]>> ELSE <<>>

\* The end of main(): the exit code line and sys.exit(exit_code).
Finish ==
    /\ pc = "finish"
    /\ Exit(exit_code)
    /\ UNCHANGED <<requested, env, selection, exit_code, pick, hv, ora, log>>

\* ------------------------------------------------------ Hyper-V workflow

\* A variant that goes back to the submission after an error.
HvExceptRetriesSubmit ==
    /\ exit_code' = 1
    /\ pc' = "hv_submit"
    /\ exit_status' = exit_status

\* The handler of the Hyper-V try block: exit_code = 1, then the code
\* after the try.
HvExcept ==
    /\ exit_code' = 1
    /\ pc' = "hv_after_try"
    /\ exit_status' = exit_status

HvFetchVms ==
    /\ pc = "hv_vms"
    /\ \E pages \in PageSeqs(VmLists) :
         LET all_vms == get_protected_connected_hyperv_vms(pages)
         IN IF all_vms = <<>>
            THEN Exit(0) /\ display' = display
            ELSE /\ display' = Displayed(all_vms)
                 /\ pc' = "hv_pick_vm"
                 /\ exit_status' = exit_status
    /\ requested' = TRUE
    /\ UNCHANGED <<env, selection, exit_code, selected_id, selected_vm_name_for_mount,
                   selected_cluster_id, selected_host_id, hv, ora, log>>

HvSelectVm ==
    /\ pc = "hv_pick_vm"
    /\ \E entry \in MenuInputs(Len(display)) :
         LET choice == MenuChoice(entry)
         IN IF choice = <<>>
            THEN UNCHANGED <<ctl, pick>>
            ELSE /\ selected_id' = choice[1].id
                 /\ selected_vm_name_for_mount' = choice[1].name
                 /\ selected_cluster_id' = choice[1].cluster_id
                 /\ display' = <<>>
                 /\ selected_host_id' = selected_host_id
                 /\ selection' = selection
                 /\ IF choice[1].id = "" \/ choice[1].cluster_id = ""
                    THEN HvExcept
                    ELSE pc' = "hv_snapshot" /\ UNCHANGED <<exit_code, exit_status>>
    /\ UNCHANGED requested
    /\ UNCHANGED <<env, hv, ora, log>>

HvSnapshot ==
    /\ pc = "hv_snapshot"
    /\ \E pages \in PageSeqs(SnapLists) :
         LET found == get_latest_snapshot_for_hyperv_vm(pages)
         IN IF found.exit
            THEN Exit(1)
            ELSE pc' = "hv_hosts" /\ exit_status' = exit_status
    /\ requested' = TRUE
    /\ UNCHANGED <<env, selection, exit_code, pick, hv, ora, log>>

HvFetchHosts ==
    /\ pc = "hv_hosts"
    /\ \E pages \in PageSeqs(ServerLists) :
         LET all_hyperv_hosts ==
                 get_connected_hyperv_servers_for_cluster(pages, selected_cluster_id)
         IN IF all_hyperv_hosts = <<>>
            THEN HvExcept /\ display' = display
            ELSE /\ display' = Displayed(all_hyperv_hosts)
                 /\ pc' = "hv_pick_host"
                 /\ UNCHANGED <<exit_code, exit_status>>
    /\ requested' = TRUE
    /\ UNCHANGED <<env, selection, selected_id, selected_vm_name_for_mount,
                   selected_cluster_id, selected_host_id, hv, ora, log>>

HvSelectHost ==
    /\ pc = "hv_pick_host"
    /\ \E entry \in MenuInputs(Len(display)) :
         LET choice == MenuChoice(entry)
         IN IF choice = <<>>
            THEN UNCHANGED <<ctl, pick>>
            ELSE /\ selected_host_id' = choice[1].id
                 /\ display' = <<>>
                 /\ UNCHANGED <<selected_id, selected_vm_name_for_mount,
                                selected_cluster_id, selection>>
                 /\ IF choice[1].id = ""
                    THEN HvExcept
                    ELSE pc' = "hv_submit" /\ UNCHANGED <<exit_code, exit_status>>
    /\ UNCHANGED requested
    /\ UNCHANGED <<env, hv, ora, log>>

\* A variant that takes every result for a handle, with or without an id.
SubmitOkWithoutId(resp) == ~resp.raise /\ resp.present

\* Whether the answer to a submit mutation gives a usable operation id.
SubmitOk(resp) == ~resp.raise /\ resp.present /\ resp.id # ""

\* How a submit mutation was answered: the request raised, the result is
\* null, the result has no id, or it has one.
SubmitKind(resp) ==
    IF resp.raise THEN "raised"
    ELSE IF ~resp.present THEN "empty"
    ELSE IF resp.id = "" THEN "noid"
    ELSE "ok"

\* The mount name, live_mount_vm and the test of the taskchain id.
HvSubmit ==
    /\ pc = "hv_submit"
    /\ \E random_suffix \in Suffixes, resp \in SubmitAnswers({"op-1"}) :
         /\ mount_vm_name' = MountVmName(selected_vm_name_for_mount, random_suffix)
         /\ vmName' = mount_vm_name'
         /\ IF SubmitOk(resp)
            THEN /\ taskchain_uuid' = resp.id
                 /\ pc' = "hv_poll"
                 /\ UNCHANGED <<exit_code, exit_status>>
            ELSE HvExcept /\ taskchain_uuid' = taskchain_uuid
         /\ last_submit' = SubmitKind(resp)
    /\ submits' = submits + 1
    /\ i' = 0
    /\ requested' = TRUE
    /\ UNCHANGED <<max_retries, last_delete, remote_deletes, fixed,
                   mounted_vm_name_to_find,
                   selection, pick, current_status, mount_task_final_state,
                   mount_id_to_unmount, attempt, unmount_initiated, ora, polls,
                   sleeps, grace_sleeps, locates, unmounts, deletes, retry_sleeps,
                   critical, last_poll, query_failed, terminal_seen>>

\* A variant with one pass too many.
LoopDoneOffByOne(index, checks) == index > checks

\* Whether a for-loop over range(checks) has made all its passes.
LoopDone(index, checks) == index >= checks

\* A variant that sleeps after the last pass too.
SleepsAfterEveryPass(index, checks) == TRUE

\* Whether a pass of a poll or retry loop that did not end the loop
\* sleeps: the sleep is skipped after the last pass.
SleepsAfter(index, checks) == index < checks - 1

\* One pass of the Hyper-V poll loop on the answer resp of the status
\* query: the test against final_states, and the interval sleep.
HvPollOn(resp) ==
    /\ pc = "hv_poll"
    /\ ~LoopDone(i, max_checks)
    /\ LET cs == check_rubrik_task_status(resp)
       IN /\ current_status' = cs
          /\ last_poll' = IF resp.raise THEN "raised" ELSE "answered"
          /\ query_failed' = (query_failed \/ resp.raise)
          /\ terminal_seen' = IF cs \in {SUCCEEDED, FAILED, CANCELED}
                              THEN terminal_seen \cup {cs} ELSE terminal_seen
          /\ IF HvIsFinal(cs)
             THEN /\ mount_task_final_state' = cs
                  /\ pc' = "hv_branch"
                  /\ UNCHANGED <<i, sleeps>>
             ELSE /\ sleeps' = IF SleepsAfter(i, max_checks)
                               THEN sleeps + 1 ELSE sleeps
                  /\ i' = i + 1
                  /\ UNCHANGED <<mount_task_final_state, pc>>
    /\ polls' = polls + 1
    /\ requested' = TRUE
    /\ UNCHANGED <<env, selection, exit_code, exit_status, pick, mount_vm_name,
                   taskchain_uuid, mount_id_to_unmount, attempt, unmount_initiated,
                   ora, submits, grace_sleeps, locates, unmounts, deletes,
                   retry_sleeps, critical>>

\* One pass of the Hyper-V poll loop, on whatever the remote answers.
HvPoll ==
    /\ pc = "hv_poll"
    /\ \E resp \in ActivityAnswers : HvPollOn(resp)

\* The else of the for-loop: all passes done without a break.
HvPollExhausted ==
    /\ pc = "hv_poll"
    /\ LoopDone(i, max_checks)
    /\ mount_task_final_state' =
           IF mount_task_final_state = None THEN TIMEOUT ELSE mount_task_final_state
    /\ pc' = "hv_branch"
    /\ UNCHANGED requested
    /\ UNCHANGED <<env, selection, exit_code, exit_status, pick, mount_vm_name,
                   taskchain_uuid, i, current_status, mount_id_to_unmount, attempt,
                   unmount_initiated, ora, log>>

\* A variant that goes on to the name lookup after every final state.
ProceedsToLocateAnyFinal(final_state) == final_state \in final_states

\* Whether main goes on to the name lookup after the poll loop.
ProceedsToLocate(final_state) == final_state = SUCCEEDED

\* The branch taken when the mount did not succeed.
HvPollFailed ==
    /\ pc = "hv_branch"
    /\ ~ProceedsToLocate(mount_task_final_state)
    /\ HvExcept
    /\ UNCHANGED <<requested, env, selection, pick, hv, ora, log>>

\* A variant that never notices a missing mount id.
LocateMissIgnored(mount_id) == FALSE

\* The test of the result of find_hyperv_mount_id: no mount id.
LocateMiss(mount_id) == mount_id = ""

\* A variant that looks the mount up under the name of the source VM.
NameToFindIsSourceName(mount_name, vm_name) == vm_name

\* The third argument of the call find_hyperv_mount_id(token, api_url,
\* mount_vm_name, selected_vm_id): the generated mount name.
NameToFind(mount_name, vm_name) == mount_name

\* A variant that goes back to the lookup when it found nothing.
PcAfterLocateRetriesMiss(mount_id) ==
    IF mount_id = "" THEN "hv_branch" ELSE "hv_after_try"

\* Where control goes after the lookup: out of the try block, whatever the
\* lookup returned.
PcAfterLocate(mount_id) == "hv_after_try"

\* The branch taken on SUCCEEDED, on the pages the remote returns for the
\* name lookup: the 10 s grace sleep, the lookup of the mount by name, and
\* the raise when it returns nothing (caught by the surrounding except).
HvLocateOn(pages) ==
    /\ pc = "hv_branch"
    /\ ProceedsToLocate(mount_task_final_state)
    /\ LET mount_id == find_hyperv_mount_id(pages)
       IN /\ mount_id_to_unmount' = mount_id
          /\ critical' = LocateMiss(mount_id)
          /\ exit_code' = IF LocateMiss(mount_id) THEN 1 ELSE exit_code
          /\ pc' = PcAfterLocate(mount_id)
    /\ grace_sleeps' = grace_sleeps + 1
    /\ locates' = locates + 1
    /\ mounted_vm_name_to_find' =
           NameToFind(mount_vm_name, selected_vm_name_for_mount)
    /\ requested' = TRUE
    /\ UNCHANGED <<max_retries, last_submit, last_delete, remote_deletes, fixed,
                   vmName, selection, exit_status, pick, mount_vm_name,
                   taskchain_uuid, i, current_status, mount_task_final_state,
                   attempt, unmount_initiated, ora, submits, polls, sleeps,
                   unmounts, deletes, retry_sleeps, last_poll, query_failed,
                   terminal_seen>>

\* The branch taken on SUCCEEDED, on whatever the remote lists.
HvLocate ==
    /\ pc = "hv_branch"
    /\ \E pages \in PageSeqs(MountLists(mount_vm_name)) : HvLocateOn(pages)

\* A variant that never goes on to the unmount.
HoldsMountIdNever(mount_id) == FALSE

\* The test 'if mount_id_to_unmount' after the try block.
HoldsMountId(mount_id) == mount_id # ""

\* The test after the try block: unmount_vm is called when a mount id is
\* held.
HvAfterTry ==
    /\ pc = "hv_after_try"
    /\ IF HoldsMountId(mount_id_to_unmount)
       THEN pc' = "hv_unmount" /\ unmounts' = unmounts + 1
       ELSE pc' = "finish" /\ unmounts' = unmounts
    /\ attempt' = 0
    /\ UNCHANGED requested
    /\ UNCHANGED <<env, selection, exit_code, exit_status, pick, mount_vm_name,
                   taskchain_uuid, i, current_status, mount_task_final_state,
                   mount_id_to_unmount, unmount_initiated, ora, submits, polls,
                   sleeps, grace_sleeps, locates, deletes, retry_sleeps, critical,
                   last_poll, query_failed, terminal_seen>>

\* A variant that looks at the mount result only.
ExitCodeAfterUnmountIgnoresResult(initiated, final_state, code) ==
    IF final_state = SUCCEEDED THEN 0 ELSE 1

\* The exit code main sets from the result of unmount_vm.
ExitCodeAfterUnmount(initiated, final_state, code) ==
    IF initiated
    THEN IF final_state = SUCCEEDED /\ code # 1 THEN 0 ELSE 1
    ELSE 1

\* main's step after unmount_vm returned initiated.
UnmountReturns(initiated) ==
    /\ unmount_initiated' = (IF initiated THEN "true" ELSE "false")
    /\ exit_code' = ExitCodeAfterUnmount(initiated, mount_task_final_state,
                                         exit_code)
    /\ pc' = "finish"
    /\ exit_status' = exit_status

\* One pass of the loop of unmount_vm; when the function returns, main
\* sets the exit code from its result.  An exception that left unmount_vm
\* would end the process with a traceback, exit status 1.
UnmountAttempt ==
    /\ pc = "hv_unmount"
    /\ ~LoopDone(attempt, max_retries)
    /\ \E resp \in DeleteAnswers :
         /\ last_delete' = resp
         /\ remote_deletes' = IF resp.accepted THEN remote_deletes + 1
                              ELSE remote_deletes
         /\ IF UnmountAccepted(resp)
            THEN UnmountReturns(TRUE) /\ UNCHANGED <<attempt, retry_sleeps>>
            ELSE IF UnmountEscapes(resp)
            THEN /\ Exit(1)
                 /\ UNCHANGED <<attempt, retry_sleeps, unmount_initiated,
                                exit_code>>
            ELSE IF SleepsAfter(attempt, max_retries)
            THEN /\ retry_sleeps' = retry_sleeps + 1
                 /\ attempt' = attempt + 1
                 /\ UNCHANGED <<unmount_initiated, exit_code, pc, exit_status>>
            ELSE UnmountReturns(FALSE) /\ UNCHANGED <<attempt, retry_sleeps>>
    /\ deletes' = deletes + 1
    /\ requested' = TRUE
    /\ UNCHANGED <<max_retries, last_submit, fixed, vmName,
                   mounted_vm_name_to_find, selection, pick,
                   mount_vm_name, taskchain_uuid, i, current_status,
                   mount_task_final_state, mount_id_to_unmount, ora, submits,
                   polls, sleeps, grace_sleeps, locates, unmounts, critical,
                   last_poll, query_failed, terminal_seen>>

\* The 'return False' after the loop of unmount_vm: the loop made no pass
\* (max_retries is 0 or less).
UnmountNoPass ==
    /\ pc = "hv_unmount"
    /\ LoopDone(attempt, max_retries)
    /\ UnmountReturns(FALSE)
    /\ UNCHANGED <<requested, env, selection, pick, mount_vm_name, taskchain_uuid, i,
                   current_status, mount_task_final_state, mount_id_to_unmount,
                   attempt, ora, log>>

\* ------------------------------------------------------- Oracle workflow

\* The handler of the Oracle try block: exit_code = 1, then the end of
\* main.
OrExcept ==
    /\ exit_code' = 1
    /\ pc' = "finish"
    /\ exit_status' = exit_status

OrFetchDbs ==
    /\ pc = "or_dbs"
    /\ \E pages \in PageSeqs(DbLists) :
         LET all_oracle_dbs == get_protected_oracle_dbs(pages)
         IN IF all_oracle_dbs = <<>>
            THEN OrExcept /\ display' = display
            ELSE /\ display' = Displayed(all_oracle_dbs)
                 /\ pc' = "or_pick_db"
                 /\ UNCHANGED <<exit_code, exit_status>>
    /\ requested' = TRUE
    /\ UNCHANGED <<env, selection, selected_id, selected_vm_name_for_mount,
                   selected_cluster_id, selected_host_id, hv, ora, log>>

OrSelectDb ==
    /\ pc = "or_pick_db"
    /\ \E entry \in MenuInputs(Len(display)) :
         LET choice == MenuChoice(entry)
         IN IF choice = <<>>
            THEN UNCHANGED <<ctl, pick>>
            ELSE /\ selected_id' = choice[1].id
                 /\ selected_cluster_id' = choice[1].cluster_id
                 /\ display' = <<>>
                 /\ UNCHANGED <<selected_vm_name_for_mount, selected_host_id,
                                selection>>
                 /\ IF choice[1].id = "" \/ choice[1].cluster_id = ""
                    THEN OrExcept
                    ELSE pc' = "or_snapshot" /\ UNCHANGED <<exit_code, exit_status>>
    /\ UNCHANGED requested
    /\ UNCHANGED <<env, hv, ora, log>>

OrSnapshot ==
    /\ pc = "or_snapshot"
    /\ \E resp \in OracleSnapshotAnswers :
         IF get_latest_oracle_snapshot(resp).raise
         THEN OrExcept
         ELSE pc' = "or_hosts" /\ UNCHANGED <<exit_code, exit_status>>
    /\ requested' = TRUE
    /\ UNCHANGED <<env, selection, pick, hv, ora, log>>

OrFetchHosts ==
    /\ pc = "or_hosts"
    /\ \E pages \in PageSeqs(OracleHostLists) :
         LET all_oracle_hosts ==
                 get_oracle_hosts_for_cluster(pages, selected_cluster_id)
         IN IF all_oracle_hosts = <<>>
            THEN OrExcept /\ display' = display
            ELSE /\ display' = Displayed(all_oracle_hosts)
                 /\ pc' = "or_pick_host"
                 /\ UNCHANGED <<exit_code, exit_status>>
    /\ requested' = TRUE
    /\ UNCHANGED <<env, selection, selected_id, selected_vm_name_for_mount,
                   selected_cluster_id, selected_host_id, hv, ora, log>>

OrSelectHost ==
    /\ pc = "or_pick_host"
    /\ \E entry \in MenuInputs(Len(display)) :
         LET choice == MenuChoice(entry)
         IN IF choice = <<>>
            THEN UNCHANGED <<ctl, pick>>
            ELSE /\ selected_host_id' = choice[1].id
                 /\ display' = <<>>
                 /\ UNCHANGED <<selected_id, selected_vm_name_for_mount,
                                selected_cluster_id, selection>>
                 /\ IF choice[1].id = ""
                    THEN OrExcept
                    ELSE pc' = "or_submit" /\ UNCHANGED <<exit_code, exit_status>>
    /\ UNCHANGED requested
    /\ UNCHANGED <<env, hv, ora, log>>

\* validate_oracle_db_backup and the test of the job id.
OrSubmit ==
    /\ pc = "or_submit"
    /\ \E resp \in SubmitAnswers({"job-1"}) :
         /\ last_submit' = SubmitKind(resp)
         /\ IF SubmitOk(resp)
            THEN /\ job_id' = resp.id
                 /\ pc' = "or_poll"
                 /\ UNCHANGED <<exit_code, exit_status>>
            ELSE OrExcept /\ job_id' = job_id
    /\ submits' = submits + 1
    /\ check_count' = 0
    /\ requested' = TRUE
    /\ UNCHANGED <<max_retries, last_delete, remote_deletes, fixed, vmName,
                   mounted_vm_name_to_find,
                   selection, pick, hv, status, validation_succeeded, oracle_job,
                   polls, sleeps, grace_sleeps, locates, unmounts, deletes,
                   retry_sleeps, critical, last_poll, query_failed, terminal_seen>>

\* The answers the status query may give while the remote holds oracle_job:
\* the query raises, it returns no details, or it returns the details.
OracleStatusAnswers ==
    {[raise |-> TRUE, details |-> NoOracleJob],
     [raise |-> FALSE, details |-> NoOracleJob],
     [raise |-> FALSE, details |-> oracle_job]}

\* A variant that reports success whatever the result.
ExitCodeAfterValidationZero(succeeded) == 0

\* The exit code main sets from the result of wait_for_oracle_job.
ExitCodeAfterValidation(succeeded) == IF succeeded THEN 0 ELSE 1

\* A variant that goes on to the Hyper-V lookup after a validation that
\* succeeded.
PcAfterValidationLocates(succeeded) ==
    IF succeeded THEN "hv_branch" ELSE "finish"

\* Where main goes when wait_for_oracle_job returned: to the exit code line
\* and sys.exit, whatever the result.
PcAfterValidation(succeeded) == "finish"

\* One pass of the loop of wait_for_oracle_job on the answer resp of the
\* status query; when the function returns, main sets the exit code from
\* its result.
OrPollOn(resp) ==
    /\ pc = "or_poll"
    /\ ~LoopDone(check_count, max_oracle_checks)
    /\ LET r == OraclePollBody(resp, status)
       IN /\ status' = r.status
          /\ last_poll' = IF resp.raise THEN "raised" ELSE "answered"
          /\ query_failed' = (query_failed \/ resp.raise)
          /\ terminal_seen' = IF r.classified = None THEN terminal_seen
                              ELSE terminal_seen \cup {r.classified}
          /\ IF r.outcome = "continue"
             THEN /\ sleeps' = IF SleepsAfter(check_count, max_oracle_checks)
                               THEN sleeps + 1 ELSE sleeps
                  /\ check_count' = check_count + 1
                  /\ UNCHANGED <<validation_succeeded, exit_code, pc>>
             ELSE /\ validation_succeeded' = r.outcome
                  /\ exit_code' = ExitCodeAfterValidation(r.outcome = "true")
                  /\ pc' = PcAfterValidation(r.outcome = "true")
                  /\ UNCHANGED <<sleeps, check_count>>
    /\ polls' = polls + 1
    /\ requested' = TRUE
    /\ UNCHANGED <<env, selection, exit_status, pick, hv, job_id, oracle_job, submits,
                   grace_sleeps, locates, unmounts, deletes, retry_sleeps, critical>>

\* One pass of the loop of wait_for_oracle_job, on whatever the status
\* query answers.
OrPoll ==
    /\ pc = "or_poll"
    /\ \E resp \in OracleStatusAnswers : OrPollOn(resp)

\* The end of the for-loop of wait_for_oracle_job: timed out, return False.
OrPollExhausted ==
    /\ pc = "or_poll"
    /\ LoopDone(check_count, max_oracle_checks)
    /\ validation_succeeded' = "false"
    /\ exit_code' = ExitCodeAfterValidation(FALSE)
    /\ pc' = PcAfterValidation(FALSE)
    /\ UNCHANGED requested
    /\ UNCHANGED <<env, selection, exit_status, pick, hv, job_id, check_count, status,
                   oracle_job, log>>

\* The remote works on the validation job: its details change until a
\* terminal status is reached, and stay as they are from then on.
RemoteJobProgress ==
    /\ pc = "or_poll"
    /\ ~RemoteTerminal(oracle_job)
    /\ \E job \in OracleJobs \ {oracle_job, NoOracleJob} : oracle_job' = job
    /\ UNCHANGED requested
    /\ UNCHANGED <<env, ctl, pick, hv, job_id, check_count, status,
                   validation_succeeded, log>>

\* ------------------------------------------------------------ specification

Next ==
    \/ LoadConfig
    \/ Authenticate
    \/ SelectWorkflow
    \/ HvFetchVms
    \/ HvSelectVm
    \/ HvSnapshot
    \/ HvFetchHosts
    \/ HvSelectHost
    \/ HvSubmit
    \/ HvPoll
    \/ HvPollExhausted
    \/ HvPollFailed
    \/ HvLocate
    \/ HvAfterTry
    \/ UnmountAttempt
    \/ OrFetchDbs
    \/ OrSelectDb
    \/ OrSnapshot
    \/ OrFetchHosts
    \/ OrSelectHost
    \/ OrSubmit
    \/ OrPoll
    \/ OrPollExhausted
    \/ RemoteJobProgress
    \/ Finish

Spec == Init /\ [][Next]_vars

\* ------------------------------------------- the two classifications alone

\* str.lower() on one character.
LowerChar(c) ==
    IF \E k \in 1..26 : UpperCase[k] = c
    THEN LowerCase[CHOOSE k \in 1..26 : UpperCase[k] = c]
    ELSE c

\* Every letter-case spelling of a word.
Spellings(word) ==
    {[k \in 1..Len(word) |-> IF up[k] THEN word[k] ELSE LowerChar(word[k])] :
        up \in [1..Len(word) -> BOOLEAN]}

\* The spellings of the terminal words and their variants.
TerminalSpellings ==
    UNION {Spellings(word) :
             word \in {SUCCEEDED, SUCCESS, FAILED, FAILURE, CANCELED, CANCELLED}}

\* The remote reports one status spelling, as the status of the Oracle job
\* and as the lastActivityStatus of the mount activity; each poller makes
\* one pass on it.
ClassifyInit ==
    /\ pc = "classify"
    /\ remote_status \in TerminalSpellings
    /\ oracle_job = OracleJob(TRUE, remote_status, "absent")
    /\ selection = ""
    /\ exit_code = 1
    /\ exit_status = -1
    /\ display = <<>>
    /\ selected_id = ""
    /\ selected_vm_name_for_mount = DefaultMountName
    /\ selected_cluster_id = ""
    /\ selected_host_id = ""
    /\ mount_vm_name = None
    /\ taskchain_uuid = ""
    /\ i = 0
    /\ current_status = None
    /\ mount_task_final_state = None
    /\ mount_id_to_unmount = ""
    /\ attempt = 0
    /\ unmount_initiated = "none"
    /\ job_id = ""
    /\ check_count = 0
    /\ status = None
    /\ validation_succeeded = "none"
    /\ submits = 0
    /\ polls = 0
    /\ sleeps = 0
    /\ grace_sleeps = 0
    /\ locates = 0
    /\ unmounts = 0
    /\ deletes = 0
    /\ retry_sleeps = 0
    /\ critical = FALSE
    /\ last_poll = "none"
    /\ query_failed = FALSE
    /\ terminal_seen = {}
    /\ max_retries = max_retries_default
    /\ last_submit = "none"
    /\ last_delete = NoDelete
    /\ remote_deletes = 0
    /\ remote_mounts = <<>>
    /\ remote_activity = <<>>
    /\ config = [kind |-> "dict", keys |-> required_keys]
    /\ token = get_auth_token("access_token")
    /\ auth_requests = 1
    /\ vmName = None
    /\ mounted_vm_name_to_find = None
    /\ requested = TRUE
    /\ OtherIdle

\* The first pass of the loop of wait_for_oracle_job on the job details.
ClassifyOracle ==
    /\ pc = "classify"
    /\ check_count = 0
    /\ LET r == OraclePollBody([raise |-> FALSE, details |-> oracle_job], status)
       IN /\ status' = r.status
          /\ validation_succeeded' =
                 IF r.outcome = "continue" THEN validation_succeeded ELSE r.outcome
    /\ check_count' = 1
    /\ UNCHANGED requested
    /\ UNCHANGED <<ctl, pick, hv, job_id, oracle_job, log, env>>

\* The first pass of the Hyper-V poll loop on the mount activity.
ClassifyHyperV ==
    /\ pc = "classify"
    /\ i = 0
    /\ LET cs == check_rubrik_task_status(
                     [raise |-> FALSE,
                      edges |-> <<Edge(TRUE, "Mount", remote_status)>>])
       IN /\ current_status' = cs
          /\ mount_task_final_state' =
                 IF HvIsFinal(cs) THEN cs ELSE mount_task_final_state
    /\ i' = 1
    /\ UNCHANGED requested
    /\ UNCHANGED <<ctl, pick, mount_vm_name, taskchain_uuid, mount_id_to_unmount,
                   attempt, unmount_initiated, ora, log, env>>

ClassifyNext == ClassifyOracle \/ ClassifyHyperV

SpecClassify == ClassifyInit /\ [][ClassifyNext]_vars

\* ------------------------------------------------------- unmount_vm alone

\* The greatest max_retries unmount_vm is called with.
MaxRetriesArg == 4

\* main at the call of unmount_vm after scenario A's mount (submitted,
\* SUCCEEDED on the first status query, mount id found), with any
\* max_retries from 0 on.
UnmountInit ==
    /\ pc = "hv_unmount"
    /\ max_retries \in 0..MaxRetriesArg
    /\ selection = "2"
    /\ exit_code = 1
    /\ exit_status = -1
    /\ display = <<>>
    /\ selected_id = "vm-1"
    /\ selected_vm_name_for_mount = NameWeb
    /\ selected_cluster_id = "cl-1"
    /\ selected_host_id = "host-1"
    /\ mount_vm_name \in {MountVmName(NameWeb, random_suffix) :
                             random_suffix \in Suffixes}
    /\ taskchain_uuid = "op-1"
    /\ i = 0
    /\ current_status = SUCCEEDED
    /\ mount_task_final_state = SUCCEEDED
    /\ mount_id_to_unmount = "mnt-77"
    /\ attempt = 0
    /\ unmount_initiated = "none"
    /\ job_id = ""
    /\ check_count = 0
    /\ status = None
    /\ validation_succeeded = "none"
    /\ oracle_job = NoOracleJob
    /\ submits = 1
    /\ polls = 1
    /\ sleeps = 0
    /\ grace_sleeps = 1
    /\ locates = 1
    /\ unmounts = 1
    /\ deletes = 0
    /\ retry_sleeps = 0
    /\ critical = FALSE
    /\ last_poll = "answered"
    /\ query_failed = FALSE
    /\ terminal_seen = {SUCCEEDED}
    /\ last_submit = "ok"
    /\ last_delete = NoDelete
    /\ remote_deletes = 0
    /\ remote_status = None
    /\ remote_mounts = <<>>
    /\ remote_activity = <<>>
    /\ config = [kind |-> "dict", keys |-> required_keys]
    /\ token = get_auth_token("access_token")
    /\ auth_requests = 1
    /\ vmName = mount_vm_name
    /\ mounted_vm_name_to_find = mount_vm_name
    /\ requested = TRUE
    /\ OtherIdle

UnmountNext == UnmountAttempt \/ UnmountNoPass \/ Finish

SpecUnmount == UnmountInit /\ [][UnmountNext]_vars

\* ------------------------------------------------------------------- claims

HyperV == selection = "2"
Oracle == selection = "1"
Exited == pc = "exited"

\* The whole Hyper-V chain went through: submitted with a task id, polled
\* to SUCCEEDED, mount id located, unmount_vm returned True.
HvFullSuccess ==
    /\ submits = 1 /\ taskchain_uuid # ""
    /\ mount_task_final_state = SUCCEEDED
    /\ locates = 1 /\ mount_id_to_unmount # ""
    /\ unmounts = 1 /\ unmount_initiated = "true"

\* C1: a Hyper-V run that ends with exit status 0 has submitted the live
\* mount, polled it to SUCCEEDED, located the mount id and had unmount_vm
\* return True; no other path ends with exit status 0.
C1_ExitZeroOnlyAfterFullSuccess ==
    (HyperV /\ Exited /\ exit_status = 0) => HvFullSuccess

\* C2: a Hyper-V run in which the mount was submitted with a task id,
\* polling reached SUCCEEDED, the mount id was found and unmount_vm
\* returned True on its first attempt ends with exit status 0.
C2_FullSuccessExitsZero ==
    (HyperV /\ Exited /\ HvFullSuccess /\ attempt = 0) => exit_status = 0

\* C3: an Oracle run ends with exit status 0 exactly when the validation
\* was submitted with a job id and a poll within the 120 observed
\* SUCCEEDED; a FAILED or CANCELED status, the polls running out and an
\* exception at any step end it with exit status 1.
C3_OracleExitCode ==
    (Oracle /\ Exited) =>
        /\ exit_status \in {0, 1}
        /\ exit_status = 0 <=>
               /\ submits = 1 /\ job_id # ""
               /\ SUCCEEDED \in terminal_seen
               /\ polls <= 120
        /\ (FAILED \in terminal_seen \/ CANCELED \in terminal_seen)
               => exit_status = 1
        /\ validation_succeeded # "true" => exit_status = 1

C3_Witness ==
    /\ Oracle /\ Exited /\ exit_status = 0
    /\ polls >= 3 /\ query_failed

\* C4: when Hyper-V polling ends in FAILED, CANCELED or TIMEOUT, neither
\* find_hyperv_mount_id nor unmount_vm is invoked in the run and the exit
\* status is 1; find_hyperv_mount_id is invoked only after polling ended
\* in SUCCEEDED.
C4_NoLocateNoCleanupAfterFailure ==
    /\ mount_task_final_state \in {FAILED, CANCELED, TIMEOUT} =>
           /\ locates = 0 /\ grace_sleeps = 0
           /\ unmounts = 0 /\ deletes = 0
           /\ Exited => exit_status = 1
    /\ locates > 0 => mount_task_final_state = SUCCEEDED

C4_Witness ==
    /\ HyperV /\ Exited /\ exit_status = 1
    /\ mount_task_final_state = TIMEOUT
    /\ polls = 72 /\ sleeps = 71

\* C5: when polling reaches SUCCEEDED but the name lookup yields no mount
\* id, unmount_vm is never invoked, the manual-unmount condition is
\* flagged and the exit status is 1.
C5_MissAfterSuccessIsCritical ==
    (mount_task_final_state = SUCCEEDED /\ locates = 1 /\ mount_id_to_unmount = "")
        => /\ critical
           /\ unmounts = 0 /\ deletes = 0
           /\ pc \in {"hv_after_try", "finish", "exited"}
           /\ Exited => exit_status = 1

C5_Witness ==
    /\ HyperV /\ Exited /\ exit_status = 1
    /\ mount_task_final_state = SUCCEEDED /\ locates = 1
    /\ mount_id_to_unmount = "" /\ critical

\* C6: when unmount_vm returns False after all its attempts failed, main
\* goes on to its final sys.exit and the exit status is 1, although the
\* mount itself SUCCEEDED.
C6_FailedUnmountExitsOne ==
    unmount_initiated = "false" =>
        /\ deletes = 3
        /\ mount_task_final_state = SUCCEEDED
        /\ exit_code = 1
        /\ \/ pc = "finish" /\ ENABLED Finish
           \/ Exited /\ exit_status = 1

C6_Witness ==
    /\ Exited /\ exit_status = 1
    /\ unmount_initiated = "false" /\ mount_task_final_state = SUCCEEDED

C8_QueryErrorIsTransient ==
    [][ /\ (polls' = polls + 1 /\ last_poll' = "raised") =>
              /\ pc' = pc
              /\ terminal_seen' = terminal_seen
              /\ mount_task_final_state' = mount_task_final_state
              /\ validation_succeeded' = validation_succeeded
              /\ exit_code' = exit_code
              /\ HyperV => i' = i + 1
              /\ Oracle => check_count' = check_count + 1
        /\ (query_failed /\ polls' = polls + 1 /\ HyperV
              /\ current_status' = SUCCEEDED)
             => mount_task_final_state' = SUCCEEDED /\ pc' = "hv_branch"
        /\ (query_failed /\ polls' = polls + 1 /\ Oracle /\ last_poll' = "answered"
              /\ status' = SUCCEEDED)
             => validation_succeeded' = "true" /\ pc' = "finish"
      ]_vars

C8_Witness ==
    /\ HyperV /\ query_failed /\ last_poll = "answered"
    /\ mount_task_final_state = SUCCEEDED /\ polls >= 3

\* C9: once a poll has classified the operation as SUCCEEDED, FAILED or
\* CANCELED, no further status query is sent in the run and no interval
\* sleep follows.
C9_TerminalClassEndsPolling ==
    [][ /\ terminal_seen # {} => polls' = polls /\ sleeps' = sleeps
        /\ terminal_seen' # terminal_seen =>
               sleeps' = sleeps /\ pc' \notin {"hv_poll", "or_poll"}
      ]_vars

\* The status words on which wait_for_oracle_job returns.
OracleStops == {SUCCEEDED, FAILED, FAILURE, CANCELLED, CANCELED}

\* C10 as stated: only SUCCEEDED, FAILED and CANCELED stop polling; after
\* any other status the poller goes on.
C10_OnlyThreeClassesStop ==
    /\ mount_task_final_state \in {None, TIMEOUT, SUCCEEDED, FAILED, CANCELED}
    /\ (validation_succeeded # "none" /\ terminal_seen = {}) => polls = 120

\* C10, amended: a poll loop is left before its last pass only on a status
\* of its own stop list (Hyper-V: final_states, with SUCCESS read as
\* SUCCEEDED; Oracle: SUCCEEDED, FAILED, FAILURE, CANCELED, CANCELLED);
\* after any other status, a missing one included, the loop makes its
\* next pass.
C10_OnlyStopListEndsPolling ==
    [][ /\ (pc = "hv_poll" /\ polls' = polls + 1) =>
              /\ pc' # "hv_poll" =>
                     current_status' \in final_states
                     /\ mount_task_final_state' = current_status'
              /\ current_status' \notin final_states =>
                     pc' = "hv_poll" /\ i' = i + 1
                     /\ mount_task_final_state' = None
        /\ (pc = "or_poll" /\ polls' = polls + 1) =>
              /\ pc' # "or_poll" => status' \in OracleStops
              /\ status' \notin OracleStops =>
                     pc' = "or_poll" /\ check_count' = check_count + 1
                     /\ validation_succeeded' = "none"
      ]_vars

C10_Witness ==
    /\ pc = "hv_poll" /\ i >= 2
    /\ current_status = UNKNOWN_STATUS_FIELD
    /\ mount_task_final_state = None

\* The terminal class the Oracle poller gave the job: SUCCEEDED when
\* wait_for_oracle_job returned True, FAILED or CANCELED when it returned
\* False on such a status, None while it has not returned.
OracleClass ==
    IF validation_succeeded = "true" THEN SUCCEEDED
    ELSE IF validation_succeeded = "false"
         THEN IF status \in {FAILED, FAILURE} THEN FAILED ELSE CANCELED
    ELSE None

\* The terminal class the Hyper-V poller gave the mount: the final state
\* its loop broke on, None when it did not break.
HvClass == mount_task_final_state

\* C11: a remote status spelled in any letter case as SUCCEEDED, FAILED or
\* CANCELED, or as the variants SUCCESS, FAILURE, CANCELLED, is classified
\* to the same terminal class by the Oracle poller and by the Hyper-V
\* poller.
C11_SameTerminalClass ==
    (pc = "classify" /\ check_count = 1 /\ i = 1) =>
        /\ OracleClass = HvClass
        /\ HvClass \in {SUCCEEDED, FAILED, CANCELED}

\* What each poller hands to main after it observed FAILED: the state the
\* Hyper-V loop breaks on, and the value wait_for_oracle_job returns.
HvStateOnFailed ==
    check_rubrik_task_status(
        [raise |-> FALSE, edges |-> <<Edge(TRUE, "Mount", FAILED)>>])
OracleResultOnFailed ==
    OraclePollBody([raise |-> FALSE, details |-> OracleJob(TRUE, FAILED, "msg")],
                   None).outcome

\* C12: the value a poller hands to main after all its passes were used
\* differs from the value it hands over after observing FAILED, for the
\* Hyper-V state variable and for the return value of wait_for_oracle_job.
C12_TimeoutDiffersFromFailed ==
    /\ (HyperV /\ pc # "hv_poll" /\ LoopDone(i, max_checks))
          => mount_task_final_state # HvStateOnFailed
    /\ (Oracle /\ validation_succeeded # "none"
          /\ LoopDone(check_count, max_oracle_checks))
          => validation_succeeded # OracleResultOnFailed

\* C13: a submit answer that is empty or has no id is never taken for a
\* submission: the workflow's handler is entered (exit_code = 1, no handle
\* kept), no status query, name lookup, unmount call or delete request
\* follows, and the exit status is 1.
C13_NoIdIsNoSubmission ==
    last_submit \in {"empty", "noid"} =>
        /\ submits = 1
        /\ taskchain_uuid = "" /\ job_id = ""
        /\ exit_code = 1
        /\ HyperV => pc \in {"hv_after_try", "finish", "exited"}
        /\ Oracle => pc \in {"finish", "exited"}
        /\ polls = 0 /\ sleeps = 0
        /\ grace_sleeps = 0 /\ locates = 0
        /\ unmounts = 0 /\ deletes = 0
        /\ Exited => exit_status = 1

C13_Witness ==
    /\ HyperV /\ Exited /\ exit_status = 1
    /\ selected_host_id # "" /\ last_submit = "noid"

\* C14: the submit mutation is sent at most once in a run: it is sent only
\* when none was sent before, and never again after a failed or errored
\* submission, a failed poll or a timeout.
C14_SubmitAtMostOnce ==
    [][ /\ submits' # submits =>
              /\ submits = 0 /\ submits' = 1
              /\ last_submit = "none" /\ polls = 0
              /\ pc \in {"hv_submit", "or_submit"}
        /\ submits = 1 => submits' = 1
      ]_vars

C14_Witness ==
    /\ HyperV /\ Exited /\ submits = 1
    /\ mount_task_final_state = TIMEOUT /\ query_failed

\* C15: unmount_vm is called at most once in a run, and whatever the
\* remote answers to its delete requests (transport or HTTP error,
\* GraphQL errors, null data, null result, null fields) no exception
\* leaves it: the call ends with True or False.
C15_UnmountOnceNeverThrows ==
    /\ unmounts <= 1
    /\ unmounts = 0 => (unmount_initiated = "none" /\ deletes = 0)
    /\ pc = "hv_unmount" => (unmounts = 1 /\ unmount_initiated = "none")
    /\ (unmounts = 1 /\ pc # "hv_unmount") =>
           /\ unmount_initiated \in {"true", "false"}
           /\ pc \in {"finish", "exited"}

C15_Witness ==
    /\ Exited /\ unmounts = 1 /\ deletes = 3
    /\ last_delete.data = "null" /\ unmount_initiated = "false"

\* C16: in a Hyper-V run in which find_hyperv_mount_id returned a mount
\* id, unmount_vm is called exactly once for that id before the process
\* exits, whatever else happened in the run.
C16_FoundMountIsUnmounted ==
    (HyperV /\ locates = 1 /\ mount_id_to_unmount # "") =>
        /\ pc \in {"hv_after_try", "hv_unmount", "finish", "exited"}
        /\ pc = "hv_after_try" => (unmounts = 0 /\ ENABLED HvAfterTry)
        /\ pc \in {"hv_unmount", "finish", "exited"} => unmounts = 1
        /\ Exited => unmount_initiated \in {"true", "false"}

C16_Witness ==
    /\ HyperV /\ Exited /\ locates = 1 /\ mount_id_to_unmount = "mnt-77"
    /\ unmounts = 1 /\ query_failed /\ unmount_initiated = "false"

\* C17: unmount_vm sends at most max_retries delete requests, stops at
\* the first attempt whose answer is accepted and returns True, returns
\* False only after max_retries attempts failed (at once and without a
\* request when max_retries is 0), and sleeps retry_delay_seconds only
\* between two attempts, never after the last one.
C17_BoundedRetries ==
    /\ deletes <= max_retries
    /\ unmount_initiated = "none" =>
           /\ pc = "hv_unmount"
           /\ deletes = attempt /\ retry_sleeps = attempt
           /\ deletes > 0 => (~UnmountAccepted(last_delete) /\ ENABLED UnmountAttempt)
    /\ unmount_initiated = "true" =>
           /\ pc \in {"finish", "exited"}
           /\ UnmountAccepted(last_delete)
           /\ deletes = attempt + 1 /\ retry_sleeps = deletes - 1
    /\ unmount_initiated = "false" =>
           /\ pc \in {"finish", "exited"}
           /\ deletes = max_retries
           /\ max_retries = 0 => (retry_sleeps = 0 /\ last_delete = NoDelete)
           /\ max_retries > 0 =>
                  (~UnmountAccepted(last_delete) /\ retry_sleeps = max_retries - 1)

C17_Witness ==
    /\ max_retries = 0 /\ unmount_initiated = "false" /\ deletes = 0 /\ Exited

\* C18: a delete attempt that ends in a transport or network error, in an
\* empty answer or in an answer with an error object (with or without a
\* message) is never counted as acceptance, and is retried while attempts
\* remain.
C18_ErrorsAreRetried ==
    (deletes > 0
       /\ \/ last_delete.raise
          \/ last_delete.data = "null"
          \/ ~last_delete.result.present
          \/ last_delete.result.error \in {"nomsg", "msg"})
      => /\ unmount_initiated # "true"
         /\ deletes < max_retries =>
                (pc = "hv_unmount" /\ attempt = deletes /\ ENABLED UnmountAttempt)

\* C19: a delete answer that carries a task id and no error message is
\* taken for acceptance and unmount_vm returns True, also when the answer
\* has no status; no status query and no interval sleep follows the call
\* of unmount_vm.
C19_TaskIdIsAcceptance ==
    [][ /\ (deletes' = deletes + 1
              /\ ~last_delete'.raise /\ last_delete'.data = "dict"
              /\ last_delete'.result.present /\ last_delete'.result.id # ""
              /\ last_delete'.result.error \in {"absent", "null", "nomsg"})
             => /\ unmount_initiated' = "true"
                /\ pc' = "finish"
                /\ attempt' = attempt /\ retry_sleeps' = retry_sleeps
        /\ unmounts >= 1 => (polls' = polls /\ sleeps' = sleeps)
        /\ unmount_initiated = "true" => deletes' = deletes
      ]_vars

C19_Witness ==
    /\ Exited /\ unmount_initiated = "true" /\ polls >= 2
    /\ last_delete.result.id = "task-9" /\ last_delete.result.status = "absent"

\* C20: once the remote has accepted a delete request for the mount, no
\* further delete request is sent in the run, also when the accepting
\* answer was lost to a time-out or transport error on the client side.
C20_NoDeleteAfterAcceptance ==
    [][remote_deletes >= 1 => deletes' = deletes]_vars

\* ------------------------------------------------- the lookup of the mount

\* C21: in the Hyper-V workflow the lookup of the mount happens at most once
\* in a run, in the step that first sleeps the grace wait and only when the
\* poll loop ended on SUCCEEDED; a lookup that found nothing is reported
\* as a critical error and is never followed by another lookup.
C21_LookupOnceAfterGrace ==
    [][/\ locates' # locates =>
            /\ locates = 0 /\ locates' = 1
            /\ grace_sleeps = 0 /\ grace_sleeps' = 1
            /\ mount_task_final_state = SUCCEEDED
            /\ mount_id_to_unmount' = "" => critical' /\ exit_code' = 1
       /\ grace_sleeps' # grace_sleeps => locates' # locates
       /\ locates = 1 => locates' = 1]_vars

\* A run that ended after one lookup that found nothing.
C21_Witness ==
    /\ pc = "exited"
    /\ locates = 1
    /\ grace_sleeps = 1
    /\ polls > 0
    /\ mount_id_to_unmount = ""
    /\ critical
    /\ exit_status = 1

\* find_hyperv_mount_id alone: main() at the branch after the poll loop of
\* a Hyper-V run ended on SUCCEEDED, the remote holding any of the page
\* runs for the name lookup.
LocateInit ==
    /\ pc = "hv_branch"
    /\ max_retries = max_retries_default
    /\ selection = "2"
    /\ exit_code = 1
    /\ exit_status = -1
    /\ display = <<>>
    /\ selected_id = "vm-1"
    /\ selected_vm_name_for_mount = NameWeb
    /\ selected_cluster_id = "cl-1"
    /\ selected_host_id = "host-1"
    /\ mount_vm_name \in {MountVmName(NameWeb, random_suffix) :
                             random_suffix \in Suffixes}
    /\ taskchain_uuid = "op-1"
    /\ i = 0
    /\ current_status = SUCCEEDED
    /\ mount_task_final_state = SUCCEEDED
    /\ mount_id_to_unmount = ""
    /\ attempt = 0
    /\ unmount_initiated = "none"
    /\ job_id = ""
    /\ check_count = 0
    /\ status = None
    /\ validation_succeeded = "none"
    /\ oracle_job = NoOracleJob
    /\ submits = 1
    /\ polls = 1
    /\ sleeps = 0
    /\ grace_sleeps = 0
    /\ locates = 0
    /\ unmounts = 0
    /\ deletes = 0
    /\ retry_sleeps = 0
    /\ critical = FALSE
    /\ last_poll = "answered"
    /\ query_failed = FALSE
    /\ terminal_seen = {SUCCEEDED}
    /\ last_submit = "ok"
    /\ last_delete = NoDelete
    /\ remote_deletes = 0
    /\ remote_status = None
    /\ remote_mounts \in PageSeqs(MountLists(mount_vm_name))
    /\ remote_activity = <<>>
    /\ config = [kind |-> "dict", keys |-> required_keys]
    /\ token = get_auth_token("access_token")
    /\ auth_requests = 1
    /\ vmName = mount_vm_name
    /\ mounted_vm_name_to_find = None
    /\ requested = TRUE
    /\ OtherIdle

\* The lookup on the pages the remote holds.
LocateStep == HvLocateOn(remote_mounts)

LocateNext ==
    \/ LocateStep
    \/ HvAfterTry
    \/ Finish

SpecLocate == LocateInit /\ [][LocateNext]_vars

\* The nodes the remote returned to the lookup, in returned order.
ReturnedMounts == get_all_paginated_nodes(remote_mounts)

\* The returned nodes whose name is exactly the requested name.
MatchingMounts ==
    LET Matches(node) == node.name = mounted_vm_name_to_find
    IN SelectSeq(ReturnedMounts, Matches)

\* C22: the id find_hyperv_mount_id returns is the id of a returned mount
\* whose name is exactly the requested name; when every returned entry has
\* another name (a prefix match, say) the result is None.
C22_NeverAnotherName ==
    (locates = 1 /\ mount_id_to_unmount # "") =>
        \E k \in 1..Len(ReturnedMounts) :
            /\ ReturnedMounts[k].id = mount_id_to_unmount
            /\ ReturnedMounts[k].name = mounted_vm_name_to_find

\* C23: when several of the returned mounts have the requested name,
\* find_hyperv_mount_id returns the id of the first of them in returned
\* order, pages taken in order, and None when that one has no id.
C23_FirstMatchDecides ==
    (locates = 1 /\ Len(MatchingMounts) >= 2) =>
        mount_id_to_unmount = MatchingMounts[1].id

\* ------------------------------------------------------- the pollers alone

\* The operations the remote can hold activity of on the source VM: the
\* one this run submitted, and another one on the same VM (updated within
\* the two minutes before, or started while this run polls).
Taskchains == {"op-1", "op-0"}

\* The activity series the remote may hold for the source VM since two
\* minutes before the submission, newest first: each edge with the
\* operation it is activity of.
RemoteActivities ==
    UNION {{[k \in 1..Len(a.edges) |-> [edge |-> a.edges[k], taskchain |-> tg[k]]] :
              tg \in [1..Len(a.edges) -> Taskchains]} :
           a \in {b \in ActivityAnswers : ~b.raise}}

\* The answer to the activity series query of check_rubrik_task_status:
\* filtered by objectFid and lastUpdatedTimeGt, it holds the edges of every
\* operation on the VM; raise for a request that fails.
activitySeriesConnection(remote, raise) ==
    IF raise THEN [raise |-> TRUE, edges |-> <<>>]
    ELSE [raise |-> FALSE, edges |-> [k \in 1..Len(remote) |-> remote[k].edge]]

\* The answer to the status query of wait_for_oracle_job while the remote
\* holds job; raise for a request that fails.
oracleDatabaseAsyncRequestDetails(job, raise) ==
    IF raise THEN [raise |-> TRUE, details |-> NoOracleJob]
    ELSE [raise |-> FALSE, details |-> job]

\* main() at the head of a poll loop, the submission answered with an id:
\* a Hyper-V run, the remote holding any activity series for the VM, or
\* an Oracle run, the remote holding any details of the job.  What the
\* remote holds does not change while the loop runs.
PollInit ==
    /\ selection \in {"1", "2"}
    /\ pc = IF selection = "2" THEN "hv_poll" ELSE "or_poll"
    /\ max_retries = max_retries_default
    /\ exit_code = 1
    /\ exit_status = -1
    /\ display = <<>>
    /\ selected_id = IF selection = "2" THEN "vm-1" ELSE "db-1"
    /\ selected_vm_name_for_mount =
           IF selection = "2" THEN NameWeb ELSE DefaultMountName
    /\ selected_cluster_id = "cl-1"
    /\ selected_host_id = "host-1"
    /\ mount_vm_name =
           IF selection = "2" THEN MountVmName(NameWeb, CHOOSE sfx \in Suffixes : TRUE)
           ELSE None
    /\ vmName = mount_vm_name
    /\ taskchain_uuid = IF selection = "2" THEN "op-1" ELSE ""
    /\ job_id = IF selection = "1" THEN "job-1" ELSE ""
    /\ remote_activity \in IF selection = "2" THEN RemoteActivities ELSE {<<>>}
    /\ oracle_job \in IF selection = "1" THEN OracleJobs ELSE {NoOracleJob}
    /\ i = 0
    /\ current_status = None
    /\ mount_task_final_state = None
    /\ mount_id_to_unmount = ""
    /\ attempt = 0
    /\ unmount_initiated = "none"
    /\ check_count = 0
    /\ status = None
    /\ validation_succeeded = "none"
    /\ submits = 1
    /\ polls = 0
    /\ sleeps = 0
    /\ grace_sleeps = 0
    /\ locates = 0
    /\ unmounts = 0
    /\ deletes = 0
    /\ retry_sleeps = 0
    /\ critical = FALSE
    /\ last_poll = "none"
    /\ query_failed = FALSE
    /\ terminal_seen = {}
    /\ last_submit = "ok"
    /\ last_delete = NoDelete
    /\ remote_deletes = 0
    /\ remote_status = None
    /\ remote_mounts = <<>>
    /\ config = [kind |-> "dict", keys |-> required_keys]
    /\ token = get_auth_token("access_token")
    /\ auth_requests = 1
    /\ mounted_vm_name_to_find = None
    /\ requested = TRUE
    /\ OtherIdle

\* One pass of the Hyper-V poll loop on what the remote holds.
PollActivity ==
    \E raise \in BOOLEAN :
        HvPollOn(activitySeriesConnection(remote_activity, raise))

\* One pass of the loop of wait_for_oracle_job on what the remote holds.
PollOracleJob ==
    \E raise \in BOOLEAN :
        OrPollOn(oracleDatabaseAsyncRequestDetails(oracle_job, raise))

PollNext ==
    \/ PollActivity
    \/ HvPollExhausted
    \/ PollOracleJob
    \/ OrPollExhausted

SpecPoll == PollInit /\ [][PollNext]_vars

ConfigComplete == config.kind = "dict" /\ required_keys \subseteq config.keys

\* C25: no inventory query, submit, poll, lookup or delete request is sent
\* unless config.json was loaded with the three required keys and the
\* token exchange returned an access_token; the token exchange is requested
\* only with a complete config; and a run that ends without a token ends
\* with a non-zero exit status, having sent none of those requests.
C25_SessionBeforeRequests ==
    /\ (requested \/ submits > 0 \/ polls > 0 \/ locates > 0 \/ deletes > 0) =>
           ConfigComplete /\ token # ""
    /\ auth_requests > 0 => ConfigComplete
    /\ auth_requests <= 1
    /\ token # "" => auth_requests = 1
    /\ (pc = "exited" /\ token = "") =>
           /\ exit_status # 0
           /\ ~requested
           /\ submits = 0 /\ polls = 0 /\ locates = 0 /\ deletes = 0

\* A Hyper-V run that sent requests of every kind.
C25_Witness ==
    /\ requested /\ token # "" /\ auth_requests = 1
    /\ submits > 0 /\ polls > 0 /\ locates > 0 /\ deletes > 0

\* C26: in an Oracle run find_hyperv_mount_id and unmount_vm are never
\* invoked and no delete is sent, whatever the validation result; when
\* wait_for_oracle_job has returned, the run is at its exit.
C26_OracleHasNoResourceStep ==
    selection = "1" =>
        /\ grace_sleeps = 0 /\ locates = 0 /\ unmounts = 0 /\ deletes = 0
        /\ mount_id_to_unmount = "" /\ unmount_initiated = "none"
        /\ pc \notin {"hv_branch", "hv_after_try", "hv_unmount"}
        /\ validation_succeeded # "none" => pc \in {"finish", "exited"}

\* An Oracle run that ended with exit status 0 after a validation that
\* succeeded.
C26_Witness ==
    /\ selection = "1" /\ validation_succeeded = "true"
    /\ pc = "exited" /\ exit_status = 0
    /\ locates = 0 /\ unmounts = 0

\* C28: the mount name is set once, with the submission, and keeps that
\* value for the rest of the run; the name find_hyperv_mount_id is called
\* with is the vmName the mount mutation was sent with.
C28_MountNameIsFixed ==
    [][/\ mount_vm_name # None => mount_vm_name' = mount_vm_name
       /\ vmName # None => vmName' = vmName
       /\ submits' # submits /\ selection = "2" =>
              mount_vm_name' # None /\ vmName' = mount_vm_name'
       /\ locates' # locates =>
              /\ mounted_vm_name_to_find' = vmName'
              /\ mounted_vm_name_to_find' = mount_vm_name
              /\ vmName' # None]_vars

\* A run that looked the mount up under the name it was submitted with.
C28_Witness ==
    /\ locates = 1 /\ submits = 1
    /\ vmName # None
    /\ mounted_vm_name_to_find = vmName
    /\ mount_id_to_unmount # ""

\* C29: a poll loop reports a timeout only when none of its attempts, the
\* last one included, observed a terminal status; a Hyper-V loop that
\* observed one reports that status.
C29_TimeoutOnlyWithoutTerminal ==
    /\ (selection = "2" /\ mount_task_final_state = TIMEOUT) => terminal_seen = {}
    /\ (selection = "2" /\ terminal_seen # {}) =>
           mount_task_final_state \in terminal_seen
    /\ (selection = "1" /\ validation_succeeded = "false"
          /\ LoopDone(check_count, max_oracle_checks)) => terminal_seen = {}

\* C30: a delete answer whose result is not empty and carries neither an
\* error message nor a task id is taken for acceptance: unmount_vm returns
\* True on that attempt, with no retry and no retry sleep.
C30_NoTaskIdIsAcceptance ==
    [][(/\ deletes' = deletes + 1
        /\ ~last_delete'.raise /\ last_delete'.data = "dict"
        /\ last_delete'.result.present /\ last_delete'.result.id = ""
        /\ last_delete'.result.error # "msg")
           => /\ unmount_initiated' = "true"
              /\ pc' = "finish"
              /\ attempt' = attempt /\ retry_sleeps' = retry_sleeps]_vars

\* unmount_vm returned True on its second attempt, on an answer with a
\* null error and no task id.
C30_Witness ==
    /\ unmount_initiated = "true" /\ deletes = 2 /\ retry_sleeps = 1
    /\ last_delete.result.present
    /\ last_delete.result.id = "" /\ last_delete.result.error = "null"

\* ------------------------------------------------ the pagination loops alone

\* The node lists a page may hold.
PageNodeLists == {<<>>, <<"n1">>, <<"n2", "n3">>}

\* What the remote may hold as one page of a connection, or do with the
\* request for it: the answers of PagesOver, and a last page that still
\* carries a cursor.
HeldPages ==
    PagesOver(PageNodeLists)
    \cup {Page("page", l, FALSE, "cursor") : l \in PageNodeLists}

\* The pages the remote may hold of one connection, in order: the cursor
\* of page k is the place of page k + 1.
HeldPageRuns == UNION {[1..m -> HeldPages] : m \in 0..MaxPages}

\* The cap on the requests of one pagination loop followed here.
MaxRequests == MaxPages + 3

\* The page requested with the cursor cursor: the first page for None (0).
PageIndex(cursor) == IF cursor = 0 THEN 1 ELSE cursor

\* The remote's answer to a page request with the cursor cursor: an empty
\* last page when it holds no page there.
ServedPage(pages, cursor) ==
    IF PageIndex(cursor) > Len(pages) THEN Page("page", <<>>, FALSE, "")
    ELSE pages[PageIndex(cursor)]

\* The value the loop keeps of the endCursor of the page at index: None
\* (0) for a null or missing endCursor.
NextCursor(p, index) == IF p.endCursor = "" THEN 0 ELSE index + 1

\* A variant that puts the newest page first.
GatheredNewestFirst(acc, p) == p.nodes \o acc

\* all_nodes.extend(nodes_on_page).
Gathered(acc, p) == acc \o p.nodes

\* The test of get_all_paginated_nodes for another pass: has_next_page and
\* end_cursor.
FollowsCursor(p) == p.hasNextPage /\ p.endCursor # ""

\* The test of retrieve_all_pages for another pass: hasNextPage alone.
RetrieveFollows(p) == p.hasNextPage

\* main() idle and a pagination loop at its first pass: get_all_paginated_nodes
\* of the validator ("validate") or retrieve_all_pages of RSC-get-vms.py
\* ("get_vms") or RSC-hypervisor-agnostic-snapshot.py ("agnostic"), the
\* remote holding any run of pages.
PaginateInit ==
    /\ pc = "config"
    /\ selection = ""
    /\ exit_code = 1
    /\ exit_status = -1
    /\ display = <<>>
    /\ selected_id = ""
    /\ selected_vm_name_for_mount = DefaultMountName
    /\ selected_cluster_id = ""
    /\ selected_host_id = ""
    /\ mount_vm_name = None
    /\ taskchain_uuid = ""
    /\ i = 0
    /\ current_status = None
    /\ mount_task_final_state = None
    /\ mount_id_to_unmount = ""
    /\ attempt = 0
    /\ unmount_initiated = "none"
    /\ job_id = ""
    /\ check_count = 0
    /\ status = None
    /\ validation_succeeded = "none"
    /\ oracle_job = NoOracleJob
    /\ submits = 0
    /\ polls = 0
    /\ sleeps = 0
    /\ grace_sleeps = 0
    /\ locates = 0
    /\ unmounts = 0
    /\ deletes = 0
    /\ retry_sleeps = 0
    /\ critical = FALSE
    /\ last_poll = "none"
    /\ query_failed = FALSE
    /\ terminal_seen = {}
    /\ max_retries = max_retries_default
    /\ last_submit = "none"
    /\ last_delete = NoDelete
    /\ remote_deletes = 0
    /\ remote_status = None
    /\ remote_mounts = <<>>
    /\ remote_activity = <<>>
    /\ config = NoConfig
    /\ token = ""
    /\ auth_requests = 0
    /\ vmName = None
    /\ mounted_vm_name_to_find = None
    /\ requested = FALSE
    /\ pager \in {"validate", "get_vms", "agnostic"}
    /\ remote_pages \in HeldPageRuns
    /\ after = 0
    /\ all_nodes = <<>>
    /\ page_count = 0
    /\ paging = "loop"
    /\ SnapIdle
    /\ MenuIdle
    /\ ScriptIdle

\* One pass of the while-loop of get_all_paginated_nodes: the page query,
\* the breaks on an exception, on no data and on a missing connection, the
\* extend and the test of pageInfo.
PageValidate ==
    /\ pager = "validate"
    /\ paging = "loop"
    /\ page_count < MaxRequests
    /\ page_count' = page_count + 1
    /\ LET p == ServedPage(remote_pages, after)
       IN IF p.kind # "page"
          THEN /\ paging' = "returned"
               /\ UNCHANGED <<all_nodes, after>>
          ELSE /\ all_nodes' = Gathered(all_nodes, p)
               /\ IF FollowsCursor(p)
                  THEN /\ after' = NextCursor(p, PageIndex(after))
                       /\ paging' = "loop"
                  ELSE /\ paging' = "returned"
                       /\ after' = after
    /\ UNCHANGED <<pager, remote_pages>>
    /\ UNCHANGED <<ctl, pick, hv, ora, log, main_env, requested, snap, menus,
                   scripts>>

\* One pass of the while-loop of retrieve_all_pages: query_vms (an
\* exception of requests.post leaves the function, a status other than
\* 200 gives None and breaks), the extend (nothing when the answer has no
\* connection) and the test of hasNextPage.
PageRetrieve ==
    /\ pager \in {"get_vms", "agnostic"}
    /\ paging = "loop"
    /\ page_count < MaxRequests
    /\ page_count' = page_count + 1
    /\ LET p == ServedPage(remote_pages, after)
       IN IF p.kind = "raise"
          THEN /\ paging' = "raised"
               /\ UNCHANGED <<all_nodes, after>>
          ELSE IF p.kind # "page"
          THEN /\ paging' = "returned"
               /\ UNCHANGED <<all_nodes, after>>
          ELSE /\ all_nodes' = Gathered(all_nodes, p)
               /\ IF RetrieveFollows(p)
                  THEN /\ after' = NextCursor(p, PageIndex(after))
                       /\ paging' = "loop"
                  ELSE /\ paging' = "returned"
                       /\ after' = after
    /\ UNCHANGED <<pager, remote_pages>>
    /\ UNCHANGED <<ctl, pick, hv, ora, log, main_env, requested, snap, menus,
                   scripts>>

PaginateNext ==
    \/ PageValidate
    \/ PageRetrieve

SpecPaginate == PaginateInit /\ [][PaginateNext]_vars

\* The nodes of the page at index k: none when the query for it failed.
NodesOfPage(pages, k) == IF pages[k].kind = "page" THEN pages[k].nodes ELSE <<>>

RECURSIVE NodesUpTo(_, _)
\* The nodes of the pages 1..n of pages, in page order.
NodesUpTo(pages, n) ==
    IF n = 0 THEN <<>> ELSE NodesUpTo(pages, n - 1) \o NodesOfPage(pages, n)

\* The index of the first page that satisfies Ends, or the number of pages
\* when none does (the remote's empty answer after the last page adds no
\* node).
FirstPage(pages, Ends(_)) ==
    IF \E k \in 1..Len(pages) : Ends(pages[k])
    THEN CHOOSE k \in 1..Len(pages) :
             Ends(pages[k]) /\ \A m \in 1..(k - 1) : ~Ends(pages[m])
    ELSE Len(pages)

\* The page fails (the query raises, or returns no data or no connection)
\* or reports hasNextPage false.
FailsOrLast(p) == p.kind # "page" \/ ~p.hasNextPage

\* The page fails, reports hasNextPage false, or has no endCursor.
FailsOrLastOrNoCursor(p) == FailsOrLast(p) \/ p.endCursor = ""

\* C31 as stated: get_all_paginated_nodes returns without raising, with
\* the nodes, in page order, of every page from the first up to and
\* including the first page whose hasNextPage is false, or up to the
\* first page whose query fails.
C31_AllPagesToLastPage ==
    (pager = "validate" /\ paging # "loop") =>
        /\ paging = "returned"
        /\ all_nodes = NodesUpTo(remote_pages, FirstPage(remote_pages, FailsOrLast))

\* C31, amended: the pages gathered end with the first page whose
\* hasNextPage is false or whose endCursor is null or missing, or before
\* the first page whose query fails; the result is the value of
\* get_all_paginated_nodes on the pages.
C31_AllPagesToStop ==
    (pager = "validate" /\ paging # "loop") =>
        /\ paging = "returned"
        /\ all_nodes =
               NodesUpTo(remote_pages, FirstPage(remote_pages, FailsOrLastOrNoCursor))
        /\ all_nodes = get_all_paginated_nodes(remote_pages)

\* get_all_paginated_nodes returned the nodes of the first page alone: the
\* page reports hasNextPage true without an endCursor, and the remote
\* holds a second page with nodes.
C31_Witness ==
    /\ pager = "validate" /\ paging = "returned" /\ page_count = 1
    /\ Len(remote_pages) = 2
    /\ remote_pages[1].kind = "page" /\ remote_pages[1].hasNextPage
    /\ remote_pages[1].endCursor = ""
    /\ NodesOfPage(remote_pages, 2) # <<>>
    /\ all_nodes = remote_pages[1].nodes /\ all_nodes # <<>>

\* C32: a pagination loop ends for every remote that holds finitely many
\* pages: it requests no page twice, so it sends at most one request for
\* each page the remote holds and one more, and has then left the loop,
\* also when a page reports hasNextPage true with a null or missing
\* endCursor.
C32_PaginationEnds ==
    /\ page_count <= Len(remote_pages) + 1
    /\ page_count = Len(remote_pages) + 1 => paging # "loop"

\* ------------------------------------------- the snapshot a workflow takes

\* The snapshot lists hold at most MaxSnaps snapshots.
MaxSnaps == 2

\* The snapshots of the remote: two of different dates, one of the date of
\* the second, a newest one that is expired, quarantined or without id, one
\* without date and one whose date strptime rejects.
HeldSnaps ==
    {SnapNode("snap-a", 1, FALSE, FALSE), SnapNode("snap-b", 2, FALSE, FALSE),
     SnapNode("snap-t", 2, FALSE, FALSE), SnapNode("snap-x", 3, TRUE, FALSE),
     SnapNode("snap-q", 3, FALSE, TRUE), SnapNode("", 3, FALSE, FALSE),
     SnapNode("snap-d", 0, FALSE, FALSE), SnapNode("snap-u", -1, FALSE, FALSE)}

HeldSnapLists == UNION {[1..m -> HeldSnaps] : m \in 0..MaxSnaps}

\* The pages the remote holds for the snapshot query of the selected VM:
\* one page of any list, two pages of one snapshot each, or a first page
\* whose query fails.
HeldSnapshotRuns ==
    {<<Page("page", l, FALSE, "")>> : l \in HeldSnapLists}
    \cup {<<Page("page", <<a>>, TRUE, "cursor"), Page("page", <<b>>, FALSE, "")>> :
            a \in HeldSnaps, b \in HeldSnaps}
    \cup {<<Page("raise", <<>>, FALSE, "")>>}

\* main() before the snapshot of the selected object is looked up.
SnapshotInit ==
    /\ selection \in {"1", "2"}
    /\ pc = IF selection = "2" THEN "hv_snapshot" ELSE "or_snapshot"
    /\ exit_code = 1
    /\ exit_status = -1
    /\ display = <<>>
    /\ selected_id = "obj-1"
    /\ selected_vm_name_for_mount = NameWeb
    /\ selected_cluster_id = "cl-1"
    /\ selected_host_id = ""
    /\ mount_vm_name = None
    /\ taskchain_uuid = ""
    /\ i = 0
    /\ current_status = None
    /\ mount_task_final_state = None
    /\ mount_id_to_unmount = ""
    /\ attempt = 0
    /\ unmount_initiated = "none"
    /\ job_id = ""
    /\ check_count = 0
    /\ status = None
    /\ validation_succeeded = "none"
    /\ oracle_job = NoOracleJob
    /\ submits = 0
    /\ polls = 0
    /\ sleeps = 0
    /\ grace_sleeps = 0
    /\ locates = 0
    /\ unmounts = 0
    /\ deletes = 0
    /\ retry_sleeps = 0
    /\ critical = FALSE
    /\ last_poll = "none"
    /\ query_failed = FALSE
    /\ terminal_seen = {}
    /\ max_retries = max_retries_default
    /\ last_submit = "none"
    /\ last_delete = NoDelete
    /\ remote_deletes = 0
    /\ remote_status = None
    /\ remote_mounts = <<>>
    /\ remote_activity = <<>>
    /\ config = [kind |-> "dict", keys |-> required_keys]
    /\ token = get_auth_token("access_token")
    /\ auth_requests = 1
    /\ vmName = None
    /\ mounted_vm_name_to_find = None
    /\ requested = TRUE
    /\ pager = "none"
    /\ remote_pages \in IF selection = "2" THEN HeldSnapshotRuns ELSE {<<>>}
    /\ after = 0
    /\ all_nodes = <<>>
    /\ page_count = 0
    /\ paging = "idle"
    /\ snapshot_fid = ""
    /\ remote_newest \in IF selection = "1" THEN OracleSnapshotAnswers
                                            ELSE {NoNewest}
    /\ MenuIdle
    /\ ScriptIdle

\* The call of get_latest_snapshot_for_hyperv_vm in main and the test of
\* its result, on the pages the remote holds.
HvSnapshotHeld ==
    /\ pc = "hv_snapshot"
    /\ LET found == get_latest_snapshot_for_hyperv_vm(remote_pages)
       IN IF found.exit
          THEN Exit(1) /\ snapshot_fid' = snapshot_fid
          ELSE /\ snapshot_fid' = found.fid
               /\ pc' = "hv_hosts"
               /\ exit_status' = exit_status
    /\ requested' = TRUE
    /\ UNCHANGED <<main_env, loop, remote_newest, menus, scripts, selection,
                   exit_code, pick, hv, ora, log>>

\* The call of get_latest_oracle_snapshot in main, on the answer the
\* remote holds.
OrSnapshotHeld ==
    /\ pc = "or_snapshot"
    /\ LET newest == get_latest_oracle_snapshot(remote_newest)
       IN IF newest.raise
          THEN OrExcept /\ snapshot_fid' = snapshot_fid
          ELSE /\ snapshot_fid' = newest.id
               /\ pc' = "or_hosts"
               /\ UNCHANGED <<exit_code, exit_status>>
    /\ requested' = TRUE
    /\ UNCHANGED <<main_env, loop, remote_newest, menus, scripts, selection,
                   pick, hv, ora, log>>

\* main() from the snapshot lookup to the submission.
SnapshotNext ==
    \/ HvSnapshotHeld
    \/ HvFetchHosts
    \/ HvSelectHost
    \/ HvSubmit
    \/ HvAfterTry
    \/ OrSnapshotHeld
    \/ OrFetchHosts
    \/ OrSelectHost
    \/ OrSubmit
    \/ Finish

SpecSnapshot == SnapshotInit /\ [][SnapshotNext]_vars

\* The snapshots the snapshot query of the selected VM returned.
Snapshots == get_all_paginated_nodes(remote_pages)

\* The places in Snapshots of the snapshots that have an id and a date and
\* are neither expired nor quarantined.
Qualified ==
    {k \in 1..Len(Snapshots) :
        /\ Snapshots[k].id # "" /\ Snapshots[k].date # 0
        /\ ~Snapshots[k].isExpired /\ ~Snapshots[k].isQuarantined}

\* The places of the snapshots of the greatest date among them.
Greatest ==
    {k \in Qualified : \A j \in Qualified : Snapshots[j].date <= Snapshots[k].date}

\* Some qualified snapshot has a date that is not in the format
\* %Y-%m-%dT%H:%M:%S.%fZ.
DateRejected == \E k \in Qualified : Snapshots[k].date < 0

\* The newest snapshot of the selected database is expired, quarantined or
\* lacks id or date.
NewestUnusable ==
    /\ remote_newest.kind = "snap"
    /\ \/ remote_newest.snap.isExpired \/ remote_newest.snap.isQuarantined
       \/ remote_newest.snap.id = "" \/ remote_newest.snap.date = 0

\* The process has exited with a non-zero status before any submission.
ExitedUnsubmitted == pc = "exited" /\ exit_status > 0 /\ submits = 0

\* C33: once the snapshot lookup of the selected VM is over, its result is
\* the id of a snapshot of the greatest date among the qualified ones; the
\* process has exited with a non-zero status and without a mount when
\* there is none (and when the date of one of them is not in the expected
\* format, where no greatest date is defined); no validation is submitted
\* for a database whose newest snapshot is unusable.
C33_LatestQualifiedOrExit ==
    /\ (selection = "2" /\ pc # "hv_snapshot") =>
          IF Qualified = {} \/ DateRejected THEN ExitedUnsubmitted
          ELSE \E k \in Greatest : snapshot_fid = Snapshots[k].id
    /\ (selection = "1" /\ NewestUnusable) => submits = 0

\* A mount was submitted with the older of two qualified snapshots passed
\* over, next to a snapshot that does not qualify.
C33_Witness ==
    /\ selection = "2" /\ submits = 1
    /\ Cardinality(Qualified) = 2 /\ Cardinality(Greatest) = 1
    /\ \E k \in Greatest : snapshot_fid = Snapshots[k].id

\* ------------------------------------------------- a selection menu alone

\* The inventories hold at most MaxInventory elements; a selection prompt
\* is answered at most MaxPrompts times.
MaxInventory == 17
MaxPrompts == 3

NameSql == <<"S","q","l">>
NameErp == <<"E","r","p">>
NameWebShort == <<"W","e","b">>

\* The inventories a menu is built from: n eligible elements of different
\* ids, the last one named Erp, the others named Web, or Web and Sql in
\* turn.
InventoryOf(n, mixed) ==
    [k \in 1..n |->
        [id |-> "id-" \o ToString(k),
         name |-> IF k = n THEN NameErp
                  ELSE IF mixed /\ k % 2 = 0 THEN NameSql ELSE NameWebShort]]

Inventories ==
    {InventoryOf(n, mixed) :
        n \in {0, 1, 15, 16, MaxInventory}, mixed \in BOOLEAN}

\* What is typed at the filter prompt: Enter, a blank, and texts that match
\* one name, several names, every name or none.
FilterTexts ==
    {<<>>, <<" ">>, <<"W","E","B">>, <<" ","e","r","p"," ">>, <<"e">>, <<"z">>}

\* What is typed at a selection prompt over n entries: a number, or a text
\* int() rejects.
MenuEntries(n) ==
    {[numeric |-> TRUE, value |-> v] : v \in MenuInputs(n)} \cup {NoEntry}

RECURSIVE StripLeft(_)
StripLeft(s) ==
    IF s # <<>> /\ Head(s) = " " THEN StripLeft(Tail(s)) ELSE s

RECURSIVE StripRight(_)
StripRight(s) ==
    IF s # <<>> /\ s[Len(s)] = " "
    THEN StripRight(SubSeq(s, 1, Len(s) - 1)) ELSE s

\* str.strip() and str.lower().
Strip(s) == StripRight(StripLeft(s))
Lower(s) == [k \in 1..Len(s) |-> LowerChar(s[k])]

\* sub in s, of two strings.
Contains(sub, s) ==
    \E k \in 0..(Len(s) - Len(sub)) : SubSeq(s, k + 1, k + Len(sub)) = sub

\* The filter text as the menu uses it.
FilterName(typed) == Lower(Strip(typed))

\* The elements of all whose name contains the filter text.
Filtered(all, name) ==
    LET Matches(e) == Contains(name, Lower(e.name))
    IN SelectSeq(all, Matches)

\* A variant that displays the filter's result also when it is empty.
DisplayListKeepsEmptyFilter(all, typed) ==
    IF Len(all) > 15
    THEN LET shown == IF FilterName(typed) # <<>>
                      THEN Filtered(all, FilterName(typed)) ELSE all
         IN IF Len(shown) > 15 THEN SubSeq(shown, 1, 15) ELSE shown
    ELSE all

\* The list a menu displays for the inventory all when typed is the answer
\* to the filter prompt (asked only for more than 15 elements).
DisplayList(all, typed) ==
    IF Len(all) > 15
    THEN LET filtered == Filtered(all, FilterName(typed))
             shown == IF FilterName(typed) # <<>> /\ filtered # <<>>
                      THEN filtered ELSE all
         IN IF Len(shown) > 15 THEN SubSeq(shown, 1, 15) ELSE shown
    ELSE all

\* The body of the selection loop on the answer entry: the selected
\* element, or <<>> when nothing is selected and the loop goes on.
Selected(shown, entry) ==
    IF ~entry.numeric THEN <<>>
    ELSE LET choice_idx == entry.value - 1
         IN IF 0 <= choice_idx /\ choice_idx < Len(shown)
            THEN <<shown[choice_idx + 1]>> ELSE <<>>

\* main() with the inventory of one of its four menus fetched.
MenuInit ==
    /\ pc = "config"
    /\ selection = ""
    /\ exit_code = 1
    /\ exit_status = -1
    /\ display = <<>>
    /\ selected_id = ""
    /\ selected_vm_name_for_mount = DefaultMountName
    /\ selected_cluster_id = ""
    /\ selected_host_id = ""
    /\ mount_vm_name = None
    /\ taskchain_uuid = ""
    /\ i = 0
    /\ current_status = None
    /\ mount_task_final_state = None
    /\ mount_id_to_unmount = ""
    /\ attempt = 0
    /\ unmount_initiated = "none"
    /\ job_id = ""
    /\ check_count = 0
    /\ status = None
    /\ validation_succeeded = "none"
    /\ oracle_job = NoOracleJob
    /\ submits = 0
    /\ polls = 0
    /\ sleeps = 0
    /\ grace_sleeps = 0
    /\ locates = 0
    /\ unmounts = 0
    /\ deletes = 0
    /\ retry_sleeps = 0
    /\ critical = FALSE
    /\ last_poll = "none"
    /\ query_failed = FALSE
    /\ terminal_seen = {}
    /\ max_retries = max_retries_default
    /\ last_submit = "none"
    /\ last_delete = NoDelete
    /\ remote_deletes = 0
    /\ remote_status = None
    /\ remote_mounts = <<>>
    /\ remote_activity = <<>>
    /\ config = NoConfig
    /\ token = ""
    /\ auth_requests = 0
    /\ vmName = None
    /\ mounted_vm_name_to_find = None
    /\ requested = FALSE
    /\ LoopIdle
    /\ SnapIdle
    /\ menu \in {"db", "or_host", "vm", "hv_host"}
    /\ menu_at = "fetched"
    /\ inventory \in Inventories
    /\ filter_name = <<>>
    /\ selected_obj = <<>>
    /\ prompts = 0
    /\ last_entry = NoEntry
    /\ ScriptIdle

\* From the test of the inventory to the printed menu: an empty inventory
\* leaves the workflow (an exception, or sys.exit(0) in the VM menu).
MenuShow ==
    /\ menu_at = "fetched"
    /\ IF inventory = <<>>
       THEN /\ menu_at' = "left"
            /\ UNCHANGED <<display, filter_name>>
       ELSE \E typed \in FilterTexts :
              /\ filter_name' = IF Len(inventory) > 15 THEN FilterName(typed)
                                                       ELSE <<>>
              /\ display' = DisplayList(inventory, typed)
              /\ menu_at' = IF display' = <<>> THEN "left" ELSE "select"
    /\ UNCHANGED <<menu, inventory, selected_obj, prompts, last_entry>>
    /\ UNCHANGED <<ctl, selected_id, selected_vm_name_for_mount,
                   selected_cluster_id, selected_host_id, hv, ora, log, main_env,
                   requested, loop, snap, scripts>>

\* One pass of the selection loop.
MenuSelect ==
    /\ menu_at = "select"
    /\ prompts < MaxPrompts
    /\ \E entry \in MenuEntries(Len(display)) :
         /\ last_entry' = entry
         /\ selected_obj' = Selected(display, entry)
         /\ menu_at' = IF selected_obj' = <<>> THEN "select" ELSE "selected"
    /\ prompts' = prompts + 1
    /\ UNCHANGED <<menu, inventory, filter_name>>
    /\ UNCHANGED <<ctl, pick, hv, ora, log, main_env, requested, loop, snap,
                   scripts>>

MenuNext == MenuShow \/ MenuSelect

SpecMenu == MenuInit /\ [][MenuNext]_vars

\* The elements of a list.
ElementsOf(list) == {list[k] : k \in 1..Len(list)}

\* The latest answer to the selection prompt names an entry of the menu.
EntryInRange ==
    last_entry.numeric /\ 1 <= last_entry.value /\ last_entry.value <= Len(display)

\* C34: the displayed list is non-empty, has at most 15 entries and holds
\* elements of the inventory only; it is the first 15 of the inventory when
\* the filter text matches nothing; the selected target is the displayed
\* entry of the number typed, and an answer that is no number of the menu
\* selects nothing and leaves the prompt open; a non-empty inventory always
\* gets its menu.
C34_MenuSelectsFromDisplay ==
    /\ menu_at \in {"select", "selected"} =>
         /\ display # <<>> /\ Len(display) <= 15
         /\ ElementsOf(display) \subseteq ElementsOf(inventory)
         /\ Len(inventory) <= 15 => display = inventory
         /\ (Len(inventory) > 15 /\ filter_name # <<>>
               /\ \A e \in ElementsOf(inventory) : ~Contains(filter_name, Lower(e.name)))
            => display = SubSeq(inventory, 1, 15)
    /\ menu_at = "selected" =>
         /\ EntryInRange
         /\ selected_obj = <<display[last_entry.value]>>
    /\ (menu_at = "select" /\ prompts > 0) =>
         ~EntryInRange /\ selected_obj = <<>>
    /\ (prompts > 0 /\ ~EntryInRange) => menu_at = "select"
    /\ inventory # <<>> => menu_at # "left"

\* An element beyond the first 15 of the inventory was selected from a
\* filtered menu, after an answer that selected nothing.
C34_Witness ==
    /\ menu_at = "selected" /\ prompts > 1
    /\ Len(inventory) > 15 /\ Len(display) = 1
    /\ selected_obj = <<inventory[Len(inventory)]>>

\* --------------------------------------- RSC-hypervisor-agnostic-snapshot

\* At most MaxIds VM ids are given to a snapshot script.
MaxIds == 2

\* A node of an inventory of get_connected_vms.
Vm(id, name) == [id |-> id, name |-> name]

\* The inventories get_connected_vms fetched, <<vSphere_vms, ahv_vms,
\* hyperv_vms>>: three different VMs, one VM in two inventories, one id
\* under two names, one id behind another, and nothing.
FetchedVmLists ==
    {<< <<Vm("vm-1", "a")>>, <<Vm("vm-2", "b")>>, <<Vm("vm-3", "c")>> >>,
     << <<>>, <<Vm("vm-1", "a")>>, <<Vm("vm-1", "a")>> >>,
     << <<Vm("vm-1", "a")>>, <<>>, <<Vm("vm-1", "h")>> >>,
     << <<Vm("vm-2", "b")>>, <<Vm("vm-3", "c"), Vm("vm-1", "a")>>, <<Vm("vm-1", "a")>> >>,
     << <<>>, <<>>, <<>> >>}

\* The pieces of the comma separated id text: an id between blanks, or
\* nothing.  A piece is a sequence of its blanks and its id.
TypedIds ==
    {<<"vm-1">>, <<" ", "vm-1", " ">>, <<"vm-2">>, <<"vm-3">>, <<" ", "vm-9">>,
     <<>>, <<" ">>}

\* str.split(',') gives at least one piece.
TypedIdRuns == UNION {[1..m -> TypedIds] : m \in 1..MaxIds}

\* vm_id.strip(): the id of the piece, "" when there is none.
StrippedId(piece) == IF Strip(piece) = <<>> THEN "" ELSE Strip(piece)[1]

\* The answers to a request of the script: kind is "ok" (status 200),
\* "non200", "raise" (requests.post raises) or "nulldata" (status 200 with
\* a null data or object field); id and name are those of the
\* effectiveSlaDomain, "" for a null one.
Answer(kind, id, name) == [kind |-> kind, id |-> id, name |-> name]

SlaAnswers ==
    {Answer(k, "", "") : k \in {"non200", "raise", "nulldata"}}
    \cup {Answer("ok", id, name) : id \in {"", "sla-1"}, name \in {"", "Gold"}}

SnapshotAnswers == {Answer(k, "", "") : k \in {"ok", "non200", "raise"}}

RECURSIVE FirstWithId(_, _)
\* The inner for-loop of get_vm_by_id: <<vm>> for the first vm of the list
\* with the id, <<>> when there is none.
FirstWithId(vm_list, vm_id) ==
    IF vm_list = <<>> THEN <<>>
    ELSE IF Head(vm_list).id = vm_id THEN <<Head(vm_list)>>
    ELSE FirstWithId(Tail(vm_list), vm_id)

RECURSIVE get_vm_by_id_last_list(_, _)
\* A variant that searches the inventories from the last to the first.
get_vm_by_id_last_list(vm_id, lists) ==
    IF lists = <<>> THEN <<>>
    ELSE IF FirstWithId(lists[Len(lists)], vm_id) # <<>>
    THEN FirstWithId(lists[Len(lists)], vm_id)
    ELSE get_vm_by_id_last_list(vm_id, SubSeq(lists, 1, Len(lists) - 1))

RECURSIVE get_vm_by_id(_, _)
\* get_vm_by_id: <<vm>> for the vm returned, <<>> for None.
get_vm_by_id(vm_id, lists) ==
    IF lists = <<>> THEN <<>>
    ELSE IF FirstWithId(Head(lists), vm_id) # <<>>
    THEN FirstWithId(Head(lists), vm_id)
    ELSE get_vm_by_id(vm_id, Tail(lists))

\* vm in vm_list, by the equality of the two dictionaries.
InList(vm, vm_list) == \E k \in 1..Len(vm_list) : vm_list[k] = vm

\* The if-chain of main that names the VM type.
VmTypeOf(vm, lists) ==
    IF InList(vm, lists[1]) THEN "VMware"
    ELSE IF InList(vm, lists[2]) THEN "Nutanix"
    ELSE IF InList(vm, lists[3]) THEN "Hyper-V"
    ELSE "Unknown"

SupportedTypes == {"VMware", "Nutanix", "Hyper-V"}

\* get_sla_domain on the answer resp: whether it sent its request, whether
\* an exception left it, and the pair it returned ("" for None).
get_sla_domain(vm_type, resp) ==
    IF vm_type \notin SupportedTypes
    THEN [sent |-> FALSE, raise |-> FALSE, sla_id |-> "", sla_name |-> ""]
    ELSE IF resp.kind = "ok"
    THEN [sent |-> TRUE, raise |-> FALSE, sla_id |-> resp.id, sla_name |-> resp.name]
    ELSE IF resp.kind = "non200"
    THEN [sent |-> TRUE, raise |-> FALSE, sla_id |-> "", sla_name |-> ""]
    ELSE [sent |-> TRUE, raise |-> TRUE, sla_id |-> "", sla_name |-> ""]

\* A request of the log: what was asked, for which id and type, with
\* which slaId, and the answer.
Request(op, vm_id, vm_type, sla_id, resp) ==
    [op |-> op, vm_id |-> vm_id, vm_type |-> vm_type, sla_id |-> sla_id,
     resp |-> resp]

\* The script after get_connected_vms and the split of the id text.
AgnosticInit ==
    /\ pc = "config"
    /\ selection = ""
    /\ exit_code = 1
    /\ exit_status = -1
    /\ display = <<>>
    /\ selected_id = ""
    /\ selected_vm_name_for_mount = DefaultMountName
    /\ selected_cluster_id = ""
    /\ selected_host_id = ""
    /\ mount_vm_name = None
    /\ taskchain_uuid = ""
    /\ i = 0
    /\ current_status = None
    /\ mount_task_final_state = None
    /\ mount_id_to_unmount = ""
    /\ attempt = 0
    /\ unmount_initiated = "none"
    /\ job_id = ""
    /\ check_count = 0
    /\ status = None
    /\ validation_succeeded = "none"
    /\ oracle_job = NoOracleJob
    /\ submits = 0
    /\ polls = 0
    /\ sleeps = 0
    /\ grace_sleeps = 0
    /\ locates = 0
    /\ unmounts = 0
    /\ deletes = 0
    /\ retry_sleeps = 0
    /\ critical = FALSE
    /\ last_poll = "none"
    /\ query_failed = FALSE
    /\ terminal_seen = {}
    /\ max_retries = max_retries_default
    /\ last_submit = "none"
    /\ last_delete = NoDelete
    /\ remote_deletes = 0
    /\ remote_status = None
    /\ remote_mounts = <<>>
    /\ remote_activity = <<>>
    /\ config = NoConfig
    /\ token = ""
    /\ auth_requests = 0
    /\ vmName = None
    /\ mounted_vm_name_to_find = None
    /\ requested = FALSE
    /\ LoopIdle
    /\ SnapIdle
    /\ MenuIdle
    /\ script = "agnostic"
    /\ script_at = "loop"
    /\ vm_lists \in FetchedVmLists
    /\ vm_ids \in TypedIdRuns
    /\ next_id = 0
    /\ requests = <<>>
    /\ returned_true = {}

\* One pass of the for-loop over vm_ids in main, on the answers sla_resp
\* and snap_resp of the remote.
AgnosticPassOn(sla_resp, snap_resp) ==
    LET vm_id == StrippedId(vm_ids[next_id + 1])
        vm == get_vm_by_id(vm_id, vm_lists)
        vm_type == VmTypeOf(vm[1], vm_lists)
        sla == get_sla_domain(vm_type, sla_resp)
        sla_request == IF sla.sent
                       THEN <<Request("sla", vm_id, vm_type, "", sla_resp)>>
                       ELSE <<>>
        takes == /\ ~sla.raise /\ sla.sla_id # "" /\ sla.sla_name # ""
                 /\ vm_type # "Unknown"
        ends == IF next_id + 1 = Len(vm_ids) THEN "returned" ELSE "loop"
    IN /\ next_id' = next_id + 1
       /\ IF vm = <<>>
          THEN /\ requests' = requests
               /\ script_at' = ends
          ELSE IF sla.raise
          THEN /\ requests' = requests \o sla_request
               /\ script_at' = "raised"
          ELSE IF takes
          THEN /\ requests' = requests \o sla_request
                     \o <<Request("snapshot", vm_id, vm_type, sla.sla_id, snap_resp)>>
               /\ script_at' = IF snap_resp.kind = "raise" THEN "raised" ELSE ends
          ELSE /\ requests' = requests \o sla_request
               /\ script_at' = ends
       /\ UNCHANGED <<script, vm_lists, vm_ids, returned_true>>
       /\ UNCHANGED <<ctl, pick, hv, ora, log, main_env, requested, loop, snap,
                      menus>>

AgnosticPass ==
    /\ script = "agnostic"
    /\ script_at = "loop"
    /\ \E sla_resp \in SlaAnswers, snap_resp \in SnapshotAnswers :
         AgnosticPassOn(sla_resp, snap_resp)

AgnosticNext == AgnosticPass

SpecAgnostic == AgnosticInit /\ [][AgnosticNext]_vars

\* The ids of the k-th inventory.
InventoryIds(k) == {vm_lists[k][j].id : j \in 1..Len(vm_lists[k])}

\* The type of the first inventory that holds the id, "none" when no
\* inventory does.
FirstInventoryType(id) ==
    IF id \in InventoryIds(1) THEN "VMware"
    ELSE IF id \in InventoryIds(2) THEN "Nutanix"
    ELSE IF id \in InventoryIds(3) THEN "Hyper-V"
    ELSE "none"

\* The n-th request of the log asked for the SLA domain of the id and was
\* answered with an id and a name.
SlaObtained(n, id) ==
    /\ n >= 1
    /\ requests[n].op = "sla" /\ requests[n].vm_id = id
    /\ requests[n].resp.kind = "ok"
    /\ requests[n].resp.id # "" /\ requests[n].resp.name # ""

\* C35: every snapshot request of the agnostic script is for an id some
\* inventory holds, follows an SLA lookup of that id that gave an id and a
\* name, and carries the type of the first inventory (vSphere, Nutanix,
\* Hyper-V) that holds the id; no request is sent for an id that no
\* inventory holds, and such an id never ends the loop over the ids.
C35_SnapshotOnlyForKnownVmWithSla ==
    /\ \A n \in 1..Len(requests) :
         requests[n].op = "snapshot" =>
           /\ FirstInventoryType(requests[n].vm_id) # "none"
           /\ requests[n].vm_type = FirstInventoryType(requests[n].vm_id)
           /\ SlaObtained(n - 1, requests[n].vm_id)
           /\ requests[n].sla_id = requests[n - 1].resp.id
    /\ \A k \in 1..next_id :
         FirstInventoryType(StrippedId(vm_ids[k])) = "none" =>
           /\ \A n \in 1..Len(requests) : requests[n].vm_id # StrippedId(vm_ids[k])
           /\ script_at = "raised" => k < next_id
    /\ script_at = "returned" <=> (next_id = Len(vm_ids) /\ script_at # "raised")

\* After an id that no inventory holds, a snapshot was requested as
\* Nutanix for a VM that the Hyper-V inventory holds as well.
C35_Witness ==
    /\ script = "agnostic" /\ next_id = 2
    /\ FirstInventoryType(StrippedId(vm_ids[1])) = "none"
    /\ Len(requests) = 2
    /\ requests[2].op = "snapshot" /\ requests[2].vm_type = "Nutanix"
    /\ requests[2].vm_id \in InventoryIds(3)

\* ------------------------------------------------ RSC-vSphere-VM-Snapshot

\* The non-empty vm_ids the loop of main runs over.
GivenIdRuns == UNION {[1..m -> {"vm-1", "vm-2"}] : m \in 1..MaxIds}

\* The answers to the details query: kind is "error" (requests.post or
\* raise_for_status raises a RequestException), "nulldata" (status 200 with
\* "data": null), "empty" (no vSphereVmNew object), "details" (the object,
\* with the id of its effectiveSlaDomain) or "nosla" (the object with a
\* null effectiveSlaDomain).
DetailsAnswers ==
    {Answer(k, "", "") : k \in {"error", "nulldata", "empty", "nosla"}}
    \cup {Answer("details", "sla-1", "Gold")}

\* The answers to the snapshot mutation: "error", "nulldata", "empty" (no
\* or an empty responses list) or "responses" (a non-empty one).
TriggerAnswers ==
    {Answer(k, "", "") : k \in {"error", "nulldata", "empty", "responses"}}

\* get_vm_details on the answer resp: whether an exception left it, and
\* whether what it returned is truthy.
get_vm_details(resp) ==
    IF resp.kind = "error" THEN [raise |-> FALSE, truthy |-> FALSE]
    ELSE IF resp.kind = "nulldata" THEN [raise |-> TRUE, truthy |-> FALSE]
    ELSE IF resp.kind = "empty" THEN [raise |-> FALSE, truthy |-> FALSE]
    ELSE [raise |-> FALSE, truthy |-> TRUE]

\* take_vm_snapshot on the answer resp: "true", "false", or "raise" when
\* an exception left it.
take_vm_snapshot(resp) ==
    IF resp.kind = "error" THEN "false"
    ELSE IF resp.kind = "nulldata" THEN "raise"
    ELSE IF resp.kind = "responses" THEN "true"
    ELSE "false"

\* The script with its non-empty vm_ids, before the loop.
VsphereInit ==
    /\ pc = "config"
    /\ selection = ""
    /\ exit_code = 1
    /\ exit_status = -1
    /\ display = <<>>
    /\ selected_id = ""
    /\ selected_vm_name_for_mount = DefaultMountName
    /\ selected_cluster_id = ""
    /\ selected_host_id = ""
    /\ mount_vm_name = None
    /\ taskchain_uuid = ""
    /\ i = 0
    /\ current_status = None
    /\ mount_task_final_state = None
    /\ mount_id_to_unmount = ""
    /\ attempt = 0
    /\ unmount_initiated = "none"
    /\ job_id = ""
    /\ check_count = 0
    /\ status = None
    /\ validation_succeeded = "none"
    /\ oracle_job = NoOracleJob
    /\ submits = 0
    /\ polls = 0
    /\ sleeps = 0
    /\ grace_sleeps = 0
    /\ locates = 0
    /\ unmounts = 0
    /\ deletes = 0
    /\ retry_sleeps = 0
    /\ critical = FALSE
    /\ last_poll = "none"
    /\ query_failed = FALSE
    /\ terminal_seen = {}
    /\ max_retries = max_retries_default
    /\ last_submit = "none"
    /\ last_delete = NoDelete
    /\ remote_deletes = 0
    /\ remote_status = None
    /\ remote_mounts = <<>>
    /\ remote_activity = <<>>
    /\ config = NoConfig
    /\ token = ""
    /\ auth_requests = 0
    /\ vmName = None
    /\ mounted_vm_name_to_find = None
    /\ requested = FALSE
    /\ LoopIdle
    /\ SnapIdle
    /\ MenuIdle
    /\ script = "vsphere"
    /\ script_at = "loop"
    /\ vm_lists = <<>>
    /\ vm_ids \in GivenIdRuns
    /\ next_id = 0
    /\ requests = <<>>
    /\ returned_true = {}

\* One pass of the for-loop over vm_ids in main, on the answers
\* details_resp and trigger_resp of the remote.
VspherePassOn(details_resp, trigger_resp) ==
    LET vm_id == vm_ids[next_id + 1]
        vm_details == get_vm_details(details_resp)
        details_request ==
            Request("details", vm_id, "VMware", "", details_resp)
        trigger_request ==
            Request("snapshot", vm_id, "VMware", details_resp.id, trigger_resp)
        took == take_vm_snapshot(trigger_resp)
        ends == IF next_id + 1 = Len(vm_ids) THEN "returned" ELSE "loop"
    IN /\ next_id' = next_id + 1
       /\ IF vm_details.raise
          THEN /\ requests' = Append(requests, details_request)
               /\ script_at' = "raised"
               /\ returned_true' = returned_true
          ELSE IF ~vm_details.truthy
          THEN /\ requests' = Append(requests, details_request)
               /\ script_at' = ends
               /\ returned_true' = returned_true
          ELSE IF details_resp.kind = "nosla"
          THEN \* vm_details['effectiveSlaDomain']['id'] raises TypeError
               /\ requests' = Append(requests, details_request)
               /\ script_at' = "raised"
               /\ returned_true' = returned_true
          ELSE /\ requests' = requests \o <<details_request, trigger_request>>
               /\ script_at' = IF took = "raise" THEN "raised" ELSE ends
               /\ returned_true' = IF took = "true"
                                   THEN returned_true \cup {next_id + 1}
                                   ELSE returned_true
       /\ UNCHANGED <<script, vm_lists, vm_ids>>
       /\ UNCHANGED <<ctl, pick, hv, ora, log, main_env, requested, loop, snap,
                      menus>>

VspherePass ==
    /\ script = "vsphere"
    /\ script_at = "loop"
    /\ \E details_resp \in DetailsAnswers, trigger_resp \in TriggerAnswers :
         VspherePassOn(details_resp, trigger_resp)

VsphereNext == VspherePass

SpecVsphere == VsphereInit /\ [][VsphereNext]_vars

\* The details requests of the log, in the order they were sent.
DetailsRequests ==
    LET IsDetails(r) == r.op = "details"
    IN SelectSeq(requests, IsDetails)

\* The details of the id were not fetched, or its snapshot was not
\* triggered.
FailedAt(n) ==
    \/ requests[n].op = "details" /\ requests[n].resp.kind # "details"
    \/ requests[n].op = "snapshot" /\ requests[n].resp.kind # "responses"

\* C36: the ids get their details request one after the other in the order
\* of vm_ids; after a failed request for an id the next request is the
\* details request of the next id, and the loop ends only after the last
\* id; take_vm_snapshot returned True only for a non-empty responses list.
C36_IdsIndependentInOrder ==
    /\ Len(DetailsRequests) = next_id
    /\ \A k \in 1..next_id : DetailsRequests[k].vm_id = vm_ids[k]
    /\ \A n \in 1..Len(requests) :
         /\ requests[n].op = "snapshot" =>
              /\ n > 1 /\ requests[n - 1].op = "details"
              /\ requests[n - 1].vm_id = requests[n].vm_id
              /\ ~FailedAt(n - 1)
         /\ (FailedAt(n) /\ n < Len(requests)) => requests[n + 1].op = "details"
    /\ script_at # "loop" => next_id = Len(vm_ids)
    /\ \A k \in returned_true :
         \E n \in 1..Len(requests) :
            /\ requests[n].op = "snapshot" /\ requests[n].vm_id = vm_ids[k]
            /\ requests[n].resp.kind = "responses"

====
